---------------------------- MODULE Spec2Model ----------------------------
(***************************************************************************)
(* Adaptive date-extraction engine of src/ExpiringDate: the date validator *)
(* (validate_date_for_products), the learned-pattern store                 *)
(* (DatePatternLearner) with its JSON persistence, the matching engine     *)
(* (find_date) and the multi-pass OCR pipeline with voting (process_image).*)
(*                                                                         *)
(* Numbers that are floats in the source are kept exact: a validation      *)
(* score is an integer number of tenths, years_diff is a number of         *)
(* 1/1461 years (days / 365.25 = 4 * days / 1461).                         *)
(***************************************************************************)
EXTENDS Integers, Sequences, FiniteSets, TLC

VARIABLES
    \* ---- validate_date_for_products, called on its own
    vd_now,        \* datetime.now() read at line 311, in ticks
    vd_date,       \* the argument date_obj, in ticks
    vd_pc,         \* "call" before the body ran, "ret" after
    vd_ret,        \* the returned (is_valid, score) pair
    \* ---- the process and what is around it
    memo,          \* results of the text functions on the texts in use
    clock_now,     \* datetime.now(), in ticks
    dp_lenient,    \* whether dateparser skips words it does not know
    learned_file,  \* learned_date_patterns.json: [exists, lines]
    \* ---- the DatePatternLearner singleton (pattern_learner.py line 278)
    learned_patterns,
    pattern_usage,
    \* ---- calls of find_date in one process: on the normalized text of an
    \* ---- OCR pass, or on a text as it is
    ps_pc,         \* "import", "ready", "ret"
    ps_n,          \* the number of calls made
    ps_text,       \* the text of the last call (the OCR text of a pass)
    ps_ret,        \* the date find_date returned, NoDate for None
    ps_call,       \* the last call: its arguments, the store before, its levels
    \* ---- the life of the store: find_date, prune, save, crash, restart
    st_pc,         \* "down", "idle", "saving"
    st_call,       \* the call that is inside save_learned_patterns
    hist,          \* what the last operations did (for the properties)
    \* ---- process_image
    img_pc,        \* "import", "start", "ocr", "vote", "done" ("off": not in use)
    img_i,         \* index of the next configuration of OCR_CONFIGS
    all_dates,     \* the list all_dates of line 364
    img_ret,       \* the value process_image returned
    img_log,       \* one record per configuration tried (for the properties)
    \* ---- parse_date_robust, called on its own
    pd_pc,         \* "call" before the body ran, "ret" after
    pd_str,        \* the argument date_str
    pd_lenient,    \* the behaviour of dateparser in this call
    pd_ret,        \* the datetime returned, NoDate for None
    \* ---- threads that call learn_from_candidate and prune_unused_patterns
    \* ---- on the singleton
    th_pc,         \* per thread: "idle", "check", "append", "count", "save",
                   \* "filter", "assign", "prune_save" ("down" before the import)
    th_arg,        \* per thread: the locals of its call and what it did
    th_n           \* the number of calls of learn_from_candidate started

vdVars == <<vd_now, vd_date, vd_pc, vd_ret>>
envVars == <<memo, clock_now, dp_lenient>>
storeVars == <<learned_file, learned_patterns, pattern_usage>>
psVars == <<ps_pc, ps_n, ps_text, ps_ret, ps_call>>
stVars == <<st_pc, st_call, hist>>
imgVars == <<img_pc, img_i, all_dates, img_ret, img_log>>

pdVars == <<pd_pc, pd_str, pd_lenient, pd_ret>>
thVars == <<th_pc, th_arg, th_n>>

vars == <<vdVars, envVars, storeVars, psVars, stVars, imgVars, pdVars, thVars>>

\* What the steps of each specification leave alone.
outsideVd == <<envVars, storeVars, psVars, stVars, imgVars, pdVars, thVars>>
outsidePs == <<vdVars, stVars, imgVars, pdVars, thVars>>
outsideSt == <<vdVars, psVars, imgVars, pdVars, thVars>>
outsideImg == <<vdVars, psVars, stVars, pdVars, thVars>>
outsidePd == <<vdVars, envVars, storeVars, psVars, stVars, imgVars, thVars>>
outsideTh == <<vdVars, psVars, stVars, imgVars, pdVars>>

-----------------------------------------------------------------------------
(* Calendar arithmetic: datetime.datetime(y, m, d) and datetime subtraction *)

\* Resolution of a datetime inside one day: a datetime is a number of ticks.
TicksPerDay == 2

\* Proleptic Gregorian day number of a civil date (datetime.toordinal up to
\* a constant offset): the value behind "date_obj - now".
DaysFromCivil(y, m, d) ==
    LET yy  == IF m <= 2 THEN y - 1 ELSE y
        era == yy \div 400
        yoe == yy - era * 400
        mp  == IF m > 2 THEN m - 3 ELSE m + 9
        doy == (153 * mp + 2) \div 5 + d - 1
        doe == yoe * 365 + yoe \div 4 - yoe \div 100 + doy
    IN  era * 146097 + doe

\* timedelta.days of (date_obj - now): the floor of the difference in days.
TimedeltaDays(date_obj, now) == (date_obj - now) \div TicksPerDay

\* calendar.isleap and the number of days of a month
IsLeap(y) == (y % 4 = 0 /\ y % 100 # 0) \/ y % 400 = 0

DaysInMonth(y, m) ==
    IF m = 2 THEN (IF IsLeap(y) THEN 29 ELSE 28)
    ELSE IF m \in {4, 6, 9, 11} THEN 30 ELSE 31

\* datetime.datetime(y, m, d) raises ValueError unless this holds.
ValidCivil(y, m, d) ==
    /\ 1 <= y /\ y <= 9999
    /\ 1 <= m /\ m <= 12
    /\ 1 <= d /\ d <= DaysInMonth(y, m)

\* The civil date <<y, m, d>> of a day number: the inverse of DaysFromCivil.
CivilFromDays(z) ==
    LET era == z \div 146097
        doe == z - era * 146097
        yoe == (doe - doe \div 1460 + doe \div 36524 - doe \div 146096) \div 365
        doy == doe - (365 * yoe + yoe \div 4 - yoe \div 100)
        mp  == (5 * doy + 2) \div 153
        d   == doy - (153 * mp + 2) \div 5 + 1
        m   == IF mp < 10 THEN mp + 3 ELSE mp - 9
    IN  <<yoe + era * 400 + (IF m <= 2 THEN 1 ELSE 0), m, d>>

\* A datetime at midnight of a civil date; None is NoDate.
NoDate == -1

MidnightOf(y, m, d) == DaysFromCivil(y, m, d) * TicksPerDay

\* datetime.date(): the day number of a datetime
DateOf(t) == t \div TicksPerDay

-----------------------------------------------------------------------------
(* validate_date_for_products                                               *)

\* 365.25 * 4: years_diff = days / 365.25 is kept as the integer 4 * days,
\* a number of 1/1461 years.
QuarterDaysPerYear == 1461

years_diff(days) == 4 * days

\* k years in the unit of years_diff
Years(k) == k * QuarterDaysPerYear

validate_date_for_products_LowerMinus4(date_obj, now) ==
    LET yd == years_diff(TimedeltaDays(date_obj, now))
    IN  IF yd < Years(-4) THEN <<FALSE, 0>>
        ELSE IF yd > Years(10) THEN <<FALSE, 0>>
        ELSE IF Years(-1) <= yd /\ yd <= Years(5) THEN <<TRUE, 10>>
        ELSE IF Years(-3) <= yd /\ yd < Years(-1) THEN <<TRUE, 7>>
        ELSE IF Years(5) < yd /\ yd <= Years(10) THEN <<TRUE, 6>>
        ELSE <<TRUE, 5>>

validate_date_for_products_OldScore6(date_obj, now) ==
    LET yd == years_diff(TimedeltaDays(date_obj, now))
    IN  IF yd < Years(-3) THEN <<FALSE, 0>>
        ELSE IF yd > Years(10) THEN <<FALSE, 0>>
        ELSE IF Years(-1) <= yd /\ yd <= Years(5) THEN <<TRUE, 10>>
        ELSE IF Years(-3) <= yd /\ yd < Years(-1) THEN <<TRUE, 6>>
        ELSE IF Years(5) < yd /\ yd <= Years(10) THEN <<TRUE, 6>>
        ELSE <<TRUE, 5>>

\* Returns <<is_valid, score in tenths>>.
validate_date_for_products(date_obj, now) ==
    LET yd == years_diff(TimedeltaDays(date_obj, now))
    IN  IF yd < Years(-3) THEN <<FALSE, 0>>
        ELSE IF yd > Years(10) THEN <<FALSE, 0>>
        ELSE IF Years(-1) <= yd /\ yd <= Years(5) THEN <<TRUE, 10>>
        ELSE IF Years(-3) <= yd /\ yd < Years(-1) THEN <<TRUE, 7>>
        ELSE IF Years(5) < yd /\ yd <= Years(10) THEN <<TRUE, 6>>
        ELSE <<TRUE, 5>>

-----------------------------------------------------------------------------
(* Strings.  A str is a TLA+ string; Char(s, i) is its i-th character as a  *)
(* one-character string.  Three characters of the source's patterns cannot  *)
(* be written in a TLA+ string and are written as "@" (the en dash U+2013), *)
(* "%" (the em dash U+2014) and "!" (the backtick); no text of the model    *)
(* contains "@", "%" or "!" themselves.                                     *)

\* F(e), with the value of e worked out once whatever use F makes of it.
Once(F(_), e) == CHOOSE v \in { F(x) : x \in { e } } : TRUE

Char(s, i) == SubSeq(s, i, i)

\* The printable ASCII characters in code order, from 32 (space) to 126,
\* without the backtick (code 96).
Alphabet ==
    " !\"#$%&'()*+,-./0123456789:;<=>?@ABCDEFGHIJKLMNOPQRSTUVWXYZ[\\]^_abcdefghijklmnopqrstuvwxyz{|}~"

AlphabetChars == { Char(Alphabet, i) : i \in 1 .. Len(Alphabet) }

\* ord(c)
CharCode ==
    [c \in AlphabetChars |->
        LET i == CHOOSE i \in 1 .. Len(Alphabet) : Char(Alphabet, i) = c
        IN  IF i <= 64 THEN 31 + i ELSE 32 + i]

\* chr(n)
Chr(n) == Char(Alphabet, IF n <= 95 THEN n - 31 ELSE n - 32)

DigitChars == { Chr(n) : n \in 48 .. 57 }
UpperChars == { Chr(n) : n \in 65 .. 90 }
LowerChars == { Chr(n) : n \in 97 .. 122 }

ToUpper(c) == IF c \in LowerChars THEN Chr(CharCode[c] - 32) ELSE c
ToLower(c) == IF c \in UpperChars THEN Chr(CharCode[c] + 32) ELSE c

\* \w, \s and \d of the re module
IsWordChar(c) == c \in DigitChars \cup UpperChars \cup LowerChars \cup {"_"}
IsSpaceChar(c) == c = " "
IsDigitChar(c) == c \in DigitChars

\* str.upper()
RECURSIVE StrUpper(_)
StrUpper(s) ==
    IF Len(s) = 0 THEN ""
    ELSE ToUpper(Char(s, 1)) \o StrUpper(SubSeq(s, 2, Len(s)))

\* int(s) of a string of decimal digits
RECURSIVE StrToNat(_)
StrToNat(s) ==
    IF Len(s) = 0 THEN 0
    ELSE StrToNat(SubSeq(s, 1, Len(s) - 1)) * 10 + (CharCode[Char(s, Len(s))] - 48)

\* s.isdigit()
IsDigitStr(s) == Len(s) > 0 /\ \A i \in 1 .. Len(s) : IsDigitChar(Char(s, i))

\* s.startswith(t) at offset i (1-based)
StartsAt(s, i, t) == i + Len(t) - 1 <= Len(s) /\ SubSeq(s, i, i + Len(t) - 1) = t

\* s.find(t, from i): the least index >= i where t occurs in s, 0 if none
RECURSIVE StrFind(_, _, _)
StrFind(s, t, i) ==
    IF i + Len(t) - 1 > Len(s) THEN 0
    ELSE IF StartsAt(s, i, t) THEN i
    ELSE StrFind(s, t, i + 1)

\* s.replace(old, new, 1)
ReplaceFirst(s, old, new) ==
    LET k == StrFind(s, old, 1)
    IN  IF k = 0 \/ Len(old) = 0 THEN s
        ELSE SubSeq(s, 1, k - 1) \o new \o SubSeq(s, k + Len(old), Len(s))

\* s.replace(old, new): every occurrence, left to right, not overlapping
RECURSIVE ReplaceAllFrom(_, _, _, _)
ReplaceAllFrom(s, old, new, i) ==
    LET k == StrFind(s, old, i)
    IN  IF k = 0 THEN SubSeq(s, i, Len(s))
        ELSE SubSeq(s, i, k - 1) \o new \o ReplaceAllFrom(s, old, new, k + Len(old))

ReplaceAll(s, old, new) == IF Len(old) = 0 THEN s ELSE ReplaceAllFrom(s, old, new, 1)

\* s.strip()
RECURSIVE LStrip(_)
LStrip(s) ==
    IF Len(s) > 0 /\ IsSpaceChar(Char(s, 1)) THEN LStrip(SubSeq(s, 2, Len(s))) ELSE s

RECURSIVE RStrip(_)
RStrip(s) ==
    IF Len(s) > 0 /\ IsSpaceChar(Char(s, Len(s)))
    THEN RStrip(SubSeq(s, 1, Len(s) - 1)) ELSE s

Strip(s) == RStrip(LStrip(s))

-----------------------------------------------------------------------------
(* re.compile: a pattern string is parsed into a tree of nodes               *)
(*   lit c | cls neg items | wb | cat xs | alt xs | rep lo hi x | grp n x    *)
(*   | la x (lookahead) | lb x (lookbehind)                                  *)
(* hi = -1 is "no upper bound".  A parse that re.compile would reject with   *)
(* re.error, or that uses syntax outside this list, has ok = FALSE.          *)

BadParse(i, g) == [ok |-> FALSE, n |-> [t |-> "fail"], i |-> i, g |-> g]
GoodParse(n, i, g) == [ok |-> TRUE, n |-> n, i |-> i, g |-> g]

Lit(c) == [t |-> "lit", c |-> c]
ClassOf(k) == [t |-> "cls", neg |-> FALSE, items |-> <<[k |-> k, lo |-> "", hi |-> ""]>>]
NegClassOf(k) == [t |-> "cls", neg |-> TRUE, items |-> <<[k |-> k, lo |-> "", hi |-> ""]>>]

RECURSIVE SkipDigits(_, _)
SkipDigits(p, i) ==
    IF i <= Len(p) /\ IsDigitChar(Char(p, i)) THEN SkipDigits(p, i + 1) ELSE i

NoQuant(i) == [has |-> FALSE, lo |-> 0, hi |-> 0, i |-> i, ok |-> TRUE]

\* The repeat operator at p[i], if there is one: * + ? {m} {m,n} {m,} {,n}
ParseQuant(p, i) ==
    IF i > Len(p) THEN NoQuant(i)
    ELSE
      LET c == Char(p, i)
      IN  CASE c = "*" -> [has |-> TRUE, lo |-> 0, hi |-> -1, i |-> i + 1, ok |-> TRUE]
            [] c = "+" -> [has |-> TRUE, lo |-> 1, hi |-> -1, i |-> i + 1, ok |-> TRUE]
            [] c = "?" -> [has |-> TRUE, lo |-> 0, hi |-> 1, i |-> i + 1, ok |-> TRUE]
            [] c = "{" ->
                 LET Bounds(lo, hi, b) ==
                         [has |-> TRUE, lo |-> lo, hi |-> hi, i |-> b + 1,
                          ok |-> hi = -1 \/ lo <= hi]
                     Braces(a, b) ==
                         LET hasComma == b > a
                             loS == SubSeq(p, i + 1, a - 1)
                             hiS == IF hasComma THEN SubSeq(p, a + 1, b - 1) ELSE loS
                         IN  IF i + 1 <= Len(p) /\ Char(p, i + 1) = "}" THEN NoQuant(i)
                             ELSE IF ~(b <= Len(p) /\ Char(p, b) = "}") THEN NoQuant(i)
                             ELSE Bounds(IF Len(loS) = 0 THEN 0 ELSE StrToNat(loS),
                                         IF Len(hiS) = 0 THEN -1 ELSE StrToNat(hiS), b)
                     Lower(a) ==
                         Braces(a, IF a <= Len(p) /\ Char(p, a) = ","
                                   THEN SkipDigits(p, a + 1) ELSE a)
                 IN  Lower(SkipDigits(p, i + 1))
            [] OTHER -> NoQuant(i)

\* One member of a [...] class starting at p[j]: a character, possibly
\* escaped, or one of \d \w \s.
ClassMember(p, j) ==
    IF j > Len(p) THEN [ok |-> FALSE, k |-> "c", c |-> "", i |-> j]
    ELSE IF Char(p, j) = "\\"
    THEN IF j + 1 > Len(p) THEN [ok |-> FALSE, k |-> "c", c |-> "", i |-> j]
         ELSE LET e == Char(p, j + 1)
              IN  IF e \in {"d", "w", "s"}
                  THEN [ok |-> TRUE, k |-> e, c |-> "", i |-> j + 2]
                  ELSE [ok |-> e \notin DigitChars \cup UpperChars \cup LowerChars,
                        k |-> "c", c |-> e, i |-> j + 2]
    ELSE [ok |-> TRUE, k |-> "c", c |-> Char(p, j), i |-> j + 1]

RECURSIVE ClassItems(_, _, _, _)
ClassItems(p, j, acc, first) ==
    IF j > Len(p) THEN [ok |-> FALSE, items |-> acc, i |-> j]
    ELSE IF Char(p, j) = "]" /\ ~first THEN [ok |-> TRUE, items |-> acc, i |-> j + 1]
    ELSE
      LET m == ClassMember(p, j)
          isRange == /\ m.ok /\ m.k = "c"
                     /\ m.i + 1 <= Len(p)
                     /\ Char(p, m.i) = "-"
                     /\ Char(p, m.i + 1) # "]"
          h == ClassMember(p, m.i + 1)
      IN  IF ~m.ok THEN [ok |-> FALSE, items |-> acc, i |-> j]
          ELSE IF isRange
          THEN IF ~h.ok \/ h.k # "c" \/ CharCode[h.c] < CharCode[m.c]
               THEN [ok |-> FALSE, items |-> acc, i |-> j]
               ELSE ClassItems(p, h.i,
                        Append(acc, [k |-> "r", lo |-> m.c, hi |-> h.c]), FALSE)
          ELSE ClassItems(p, m.i, Append(acc, [k |-> m.k, lo |-> m.c, hi |-> m.c]), FALSE)

\* The class whose "[" is at p[i]
ParseClass(p, i, g) ==
    LET neg == i + 1 <= Len(p) /\ Char(p, i + 1) = "^"
        Class(r) ==
            IF r.ok THEN GoodParse([t |-> "cls", neg |-> neg, items |-> r.items], r.i, g)
            ELSE BadParse(i, g)
    IN  Class(ClassItems(p, IF neg THEN i + 2 ELSE i + 1, <<>>, TRUE))

RECURSIVE ParseAlt(_, _, _)
RECURSIVE ParseAltRest(_, _, _, _)
RECURSIVE ParseCat(_, _, _, _)
RECURSIVE ParseAtom(_, _, _)

\* The group whose "(" is at p[i]
ParseGroup(p, i, g) ==
    LET kind == IF StartsAt(p, i + 1, "?:") THEN "nc"
                ELSE IF StartsAt(p, i + 1, "?<=") THEN "lb"
                ELSE IF StartsAt(p, i + 1, "?=") THEN "la"
                ELSE IF StartsAt(p, i + 1, "?") THEN "other"
                ELSE "cap"
        from == CASE kind = "nc" -> i + 3
                  [] kind = "lb" -> i + 4
                  [] kind = "la" -> i + 3
                  [] OTHER -> i + 1
        Group(sub) ==
            IF kind = "other" \/ ~(sub.ok /\ sub.i <= Len(p) /\ Char(p, sub.i) = ")")
            THEN BadParse(i, g)
            ELSE GoodParse(CASE kind = "nc" -> sub.n
                             [] kind = "lb" -> [t |-> "lb", x |-> sub.n]
                             [] kind = "la" -> [t |-> "la", x |-> sub.n]
                             [] OTHER -> [t |-> "grp", n |-> g, x |-> sub.n],
                           sub.i + 1, sub.g)
    IN  Group(ParseAlt(p, from, IF kind = "cap" THEN g + 1 ELSE g))

ParseAtom(p, i, g) ==
    LET c == Char(p, i)
    IN  CASE c = "(" -> ParseGroup(p, i, g)
          [] c = "[" -> ParseClass(p, i, g)
          [] c = "\\" ->
               IF i + 1 > Len(p) THEN BadParse(i, g)
               ELSE LET e == Char(p, i + 1)
                    IN  CASE e = "b" -> GoodParse([t |-> "wb"], i + 2, g)
                          [] e \in {"d", "w", "s"} -> GoodParse(ClassOf(e), i + 2, g)
                          [] e \in {"D", "W", "S"} ->
                               GoodParse(NegClassOf(ToLower(e)), i + 2, g)
                          [] e \in DigitChars \cup UpperChars \cup LowerChars ->
                               BadParse(i, g)
                          [] OTHER -> GoodParse(Lit(e), i + 2, g)
          [] c \in {"*", "+", "?"} -> BadParse(i, g)
          [] c = "{" -> IF ParseQuant(p, i).has THEN BadParse(i, g)
                        ELSE GoodParse(Lit(c), i + 1, g)
          [] c \in {".", "^", "$"} -> BadParse(i, g)
          [] OTHER -> GoodParse(Lit(c), i + 1, g)

\* A sequence of repeated atoms, up to "|", ")" or the end
ParseCat(p, i, g, acc) ==
    IF i > Len(p) \/ Char(p, i) \in {"|", ")"}
    THEN GoodParse([t |-> "cat", xs |-> acc], i, g)
    ELSE
      LET Repeated(a, q) ==
              IF \/ ~a.ok \/ ~q.ok
                 \/ /\ q.has /\ q.i <= Len(p)
                    /\ (Char(p, q.i) \in {"*", "+", "?"} \/ ParseQuant(p, q.i).has)
              THEN BadParse(i, g)
              ELSE ParseCat(p, q.i, a.g,
                            Append(acc, IF q.has
                                        THEN [t |-> "rep", lo |-> q.lo, hi |-> q.hi, x |-> a.n]
                                        ELSE a.n))
          Atom(a) == Repeated(a, ParseQuant(p, a.i))
      IN  Atom(ParseAtom(p, i, g))

ParseAltRest(p, i, g, acc) ==
    LET Branch(c) ==
            IF ~c.ok THEN c
            ELSE IF c.i <= Len(p) /\ Char(p, c.i) = "|"
            THEN ParseAltRest(p, c.i + 1, c.g, Append(acc, c.n))
            ELSE IF Len(acc) = 0 THEN c
            ELSE GoodParse([t |-> "alt", xs |-> Append(acc, c.n)], c.i, c.g)
    IN  Branch(ParseCat(p, i, g, <<>>))

ParseAlt(p, i, g) == ParseAltRest(p, i, g, <<>>)

\* re.compile(pattern): ok = FALSE stands for re.error
Compile(p) ==
    LET Whole(r) ==
            IF r.ok /\ r.i = Len(p) + 1
            THEN [ok |-> TRUE, n |-> r.n, ng |-> r.g - 1]
            ELSE [ok |-> FALSE, n |-> [t |-> "fail"], ng |-> 0]
    IN  Whole(ParseAlt(p, 1, 1))

-----------------------------------------------------------------------------
(* Matching: the backtracking search of the re module.  Run matches the     *)
(* nodes of k in sequence from position i and returns the first success in  *)
(* the engine's order of preference (greedy repeats, alternatives left to   *)
(* right).                                                                   *)

NoRun == [ok |-> FALSE, e |-> 0, caps |-> <<>>]

\* "a or b" of two runs: a if it succeeded
OrElse(a, b) == IF a.ok THEN a ELSE b

ItemHas(item, c) ==
    CASE item.k = "c" -> item.lo = c
      [] item.k = "r" -> CharCode[item.lo] <= CharCode[c] /\ CharCode[c] <= CharCode[item.hi]
      [] item.k = "d" -> IsDigitChar(c)
      [] item.k = "w" -> IsWordChar(c)
      [] item.k = "s" -> IsSpaceChar(c)

ClassHas(cls, c, ic) ==
    LET forms == IF ic THEN {c, ToUpper(c), ToLower(c)} ELSE {c}
        hit == \E ch \in forms : \E j \in 1 .. Len(cls.items) : ItemHas(cls.items[j], ch)
    IN  hit # cls.neg

\* \b at position i: between s[i-1] and s[i]
AtWordBoundary(s, i) ==
    LET before == i > 1 /\ IsWordChar(Char(s, i - 1))
        after == i <= Len(s) /\ IsWordChar(Char(s, i))
    IN  before # after

RECURSIVE Run(_, _, _, _, _)
RECURSIVE RunAlt(_, _, _, _, _, _, _)

RunAlt(xs, j, rest, s, i, caps, ic) ==
    IF j > Len(xs) THEN NoRun
    ELSE OrElse(Run(<<xs[j]>> \o rest, s, i, caps, ic),
                RunAlt(xs, j + 1, rest, s, i, caps, ic))

Run(k, s, i, caps, ic) ==
    IF Len(k) = 0 THEN [ok |-> TRUE, e |-> i, caps |-> caps]
    ELSE
      LET h == Head(k)
          rest == Tail(k)
      IN  CASE h.t = "lit" ->
                 IF i <= Len(s) /\ (Char(s, i) = h.c
                                    \/ (ic /\ ToUpper(Char(s, i)) = ToUpper(h.c)))
                 THEN Run(rest, s, i + 1, caps, ic) ELSE NoRun
            [] h.t = "cls" ->
                 IF i <= Len(s) /\ ClassHas(h, Char(s, i), ic)
                 THEN Run(rest, s, i + 1, caps, ic) ELSE NoRun
            [] h.t = "wb" ->
                 IF AtWordBoundary(s, i) THEN Run(rest, s, i, caps, ic) ELSE NoRun
            [] h.t = "cat" -> Run(h.xs \o rest, s, i, caps, ic)
            [] h.t = "alt" -> RunAlt(h.xs, 1, rest, s, i, caps, ic)
            [] h.t = "rep" /\ h.x.t \in {"lit", "cls"} ->
                 \* a repeated single character: take the longest run, then
                 \* give characters back one at a time
                 LET fits(j) ==
                         IF h.x.t = "lit"
                         THEN Char(s, j) = h.x.c
                              \/ (ic /\ ToUpper(Char(s, j)) = ToUpper(h.x.c))
                         ELSE ClassHas(h.x, Char(s, j), ic)
                     room == Len(s) - i + 1
                     cap == IF h.hi = -1 \/ h.hi > room THEN room ELSE h.hi
                     longest(bad) == IF bad = {} THEN cap
                                     ELSE (CHOOSE j \in bad : \A j2 \in bad : j <= j2) - i
                     RECURSIVE GiveBack(_)
                     GiveBack(n) ==
                         IF n < h.lo THEN NoRun
                         ELSE OrElse(Run(rest, s, i + n, caps, ic), GiveBack(n - 1))
                 IN  GiveBack(longest({j \in i .. i + cap - 1 : ~fits(j)}))
            [] h.t = "rep" /\ h.x.t \notin {"lit", "cls"} ->
                 LET less == [t |-> "rep",
                              lo |-> IF h.lo > 0 THEN h.lo - 1 ELSE 0,
                              hi |-> IF h.hi = -1 THEN -1 ELSE h.hi - 1,
                              x |-> h.x]
                 IN  OrElse(IF h.hi = 0 THEN NoRun
                            ELSE Run(<<h.x, [t |-> "adv", from |-> i], less>> \o rest,
                                     s, i, caps, ic),
                            IF h.lo = 0 THEN Run(rest, s, i, caps, ic) ELSE NoRun)
            [] h.t = "adv" ->
                 IF i > h.from THEN Run(rest, s, i, caps, ic) ELSE NoRun
            [] h.t = "grp" ->
                 Run(<<h.x, [t |-> "end", n |-> h.n, from |-> i]>> \o rest, s, i, caps, ic)
            [] h.t = "end" ->
                 Run(rest, s, i, [caps EXCEPT ![h.n] = <<h.from, i>>], ic)
            [] h.t = "la" ->
                 IF Run(<<h.x>>, s, i, caps, ic).ok
                 THEN Run(rest, s, i, caps, ic) ELSE NoRun
            [] h.t = "lb" ->
                 \* the source's lookbehinds are one character wide
                 IF i > 1 /\ Run(<<h.x>>, s, i - 1, caps, ic).e = i
                 THEN Run(rest, s, i, caps, ic) ELSE NoRun
            [] OTHER -> NoRun

\* A match object: s, e are start() + 1 and end() + 1; caps[n] is the span
\* of group n, <<0, 0>> when the group did not take part.
NoMatch == [ok |-> FALSE, s |-> 0, e |-> 0, caps |-> <<>>]

\* regex.match(s, pos): a match starting exactly at i
MatchAt(re, s, i, ic) ==
    LET Match(r) ==
            IF r.ok THEN [ok |-> TRUE, s |-> i, e |-> r.e, caps |-> r.caps] ELSE NoMatch
    IN  Match(Run(<<re.n>>, s, i, [n \in 1 .. re.ng |-> <<0, 0>>], ic))

\* regex.search(s, pos): the leftmost match starting at or after i
RECURSIVE SearchFrom(_, _, _, _)
SearchFrom(re, s, i, ic) ==
    IF i > Len(s) + 1 THEN NoMatch
    ELSE OrElse(MatchAt(re, s, i, ic), SearchFrom(re, s, i + 1, ic))

\* list(regex.finditer(s)): the successive non-overlapping matches
RECURSIVE FinditerFrom(_, _, _, _)
FinditerFrom(re, s, i, ic) ==
    LET Matches(m) ==
            IF ~m.ok THEN <<>>
            ELSE <<m>> \o FinditerFrom(re, s, IF m.e > m.s THEN m.e ELSE m.e + 1, ic)
    IN  Matches(SearchFrom(re, s, i, ic))

Finditer(re, s, ic) == FinditerFrom(re, s, 1, ic)

\* match.group(0) and match.group(n)
Group0(s, m) == SubSeq(s, m.s, m.e - 1)
GroupN(s, m, n) == SubSeq(s, m.caps[n][1], m.caps[n][2] - 1)
-----------------------------------------------------------------------------
(* The regexes of the source, as written there                               *)

\* extract_date.py, BASE_DATE_PATTERNS (one string per source line given)
BASE_DATE_PATTERNS == <<
    \* line 35
    "\\b(\\d{1,2})\\s*[\\/\\-\\.@%]\\s*(\\d{1,2})\\s*[\\/\\-\\.@%]\\s*(\\d{2,4})\\b",
    \* line 38
    "\\b(\\d{4})\\s*[\\/\\-\\.@%]\\s*(\\d{1,2})\\s*[\\/\\-\\.@%]\\s*(\\d{1,2})\\b",
    \* line 41
    "\\b(\\d{1,2})(JAN|FEB|MAR|APR|MAY|JUN|JUL|AUG|SEP|SEPT|OCT|NOV|DEC)(\\d{2})\\b",
    \* line 42
    "\\b(\\d{1,2})(JAN|FEB|MAR|APR|MAY|JUN|JUL|AUG|SEP|SEPT|OCT|NOV|DEC)(\\d{4})\\b",
    \* line 45
    "\\b(\\d{1,2})\\s*[\\/\\-\\.]\\s*(JAN|FEB|MAR|APR|MAY|JUN|JUL|AUG|SEP|SEPT|OCT|NOV|DEC)[A-Z]*\\.?\\s*[\\/\\-\\.]\\s*(\\d{2,4})\\b",
    \* line 48
    "\\b(\\d{1,2})\\s+(JAN|FEB|MAR|APR|MAY|JUN|JUNE|JUL|AUG|SEPT?|OCT|NOV|DEC)[A-Z]*\\.?\\s+(\\d{4})\\b",
    \* line 49
    "\\b(\\d{1,2})\\s+(JANUARY|FEBRUARY|MARCH|APRIL|MAY|JUNE|JULY|AUGUST|SEPTEMBER|OCTOBER|NOVEMBER|DECEMBER)\\s+(\\d{4})\\b",
    \* line 52
    "\\b(JAN|FEB|MAR|APR|MAY|JUN|JUNE|JUL|AUG|SEPT?|OCT|NOV|DEC)[A-Z]*\\.?\\s+(\\d{1,2})[,\\s]+(\\d{4})\\b",
    \* line 53
    "\\b(JANUARY|FEBRUARY|MARCH|APRIL|MAY|JUNE|JULY|AUGUST|SEPTEMBER|OCTOBER|NOVEMBER|DECEMBER)\\s+(\\d{1,2})[,\\s]+(\\d{4})\\b",
    \* line 56
    "(?:EXP|VENC|CAD|USE\\s*BY|BEST\\s*BEFORE|EXPIRY|EXPIRES?|BBE|BB)\\s*[:\\s]*\\s*(\\d{1,2})\\s*[\\/\\-\\.@%]\\s*(\\d{1,2})\\s*[\\/\\-\\.@%]\\s*(\\d{2,4})",
    \* line 57
    "(?:EXP|VENC|CAD|USE\\s*BY|BEST\\s*BEFORE|EXPIRY|EXPIRES?)\\s*[:\\s]*\\s*(\\d{1,2})(JAN|FEB|MAR|APR|MAY|JUN|JUL|AUG|SEP|SEPT|OCT|NOV|DEC)(\\d{2,4})",
    \* line 58
    "(?:EXP(?:IRY)?(?:\\s*DATE)?|VENC(?:IMIENTO)?|CAD(?:UCIDAD)?|USE\\s*BY|BEST\\s*BEFORE|EXPIRES?|BBE|BB|MFG)\\s*[:\\s]*(\\d{1,2})[\\/\\-\\.]\\s*(\\d{1,2})[\\/\\-\\.]\\s*(\\d{2,4})",
    \* line 59
    "(?:EXP(?:IRY)?|VENC|CAD|USE\\s*BY|BEST\\s*BEFORE|EXPIRES?)\\s*[:\\s]*(\\d{1,2})\\s*[\\/\\-\\.]?\\s*(JAN|FEB|MAR|APR|MAY|JUN|JUL|AUG|SEP|SEPT|OCT|NOV|DEC)[A-Z]*\\s*[\\/\\-\\.]?\\s*(\\d{2,4})",
    \* line 60
    "(?:EXP(?:IRY)?|VENC|CAD|EXPIRES?)\\s*[:\\s]*(\\d{1,2})[\\/\\-\\.]\\s*(\\d{2,4})",
    \* line 67
    "\\b(\\d{1,2})\\s*[\\/\\-\\.@%]\\s*(\\d{2,4})\\b",
    \* line 70
    "\\b(JAN|FEB|MAR|APR|MAY|JUN|JUL|AUG|SEP|SEPT|OCT|NOV|DEC)[A-Z]*\\.?\\s*[\\/\\-\\.@%]?\\s*(\\d{4})\\b",
    \* line 73
    "(?:EXP|VENC|CAD|USE\\s*BY|BEST\\s*BEFORE|EXPIRY|EXPIRES?)\\s*[:\\s]*\\s*(\\d{1,2})\\s*[\\/\\-\\.@%]\\s*(\\d{2,4})",
    \* line 80
    "\\b(\\d{8})\\b"
>>

\* pattern_learner.py, detect_potential_date_strings: heuristic_patterns
heuristic_patterns == <<
    \* line 69
    "\\b(\\d{1,2}[A-Z]{3,4}\\d{2,4})\\b",
    \* line 72
    "\\b([A-Z]{3,9}\\s*[\\-\\/\\.\\s]?\\s*\\d{2,4})\\b",
    \* line 75
    "\\b(\\d{1,2}\\s*[\\~\\!\\^\\*\\+]\\s*\\d{1,2}\\s*[\\~\\!\\^\\*\\+]\\s*\\d{2,4})\\b",
    \* line 78
    "(?:EXP|VENC|CAD|FECHA|DATE|MFG|BBE|BEST|USE)\\s*[:\\s]*([A-Z0-9\\s\\-\\/\\.]{5,20})",
    \* line 81
    "\\b(\\d{1,2}\\s*[^\\w\\s]\\s*\\d{1,2}\\s*[^\\w\\s]\\s*\\d{2,4})\\b",
    \* line 84
    "\\b(\\d{1,2}[A-Z]{2,3}\\d{1,4})\\b"
>>

\* re.compile(pattern)
Re(pattern) == Compile(pattern)

-----------------------------------------------------------------------------
(* re.sub and normalize_ocr_text                                             *)

\* The replacement template: a sequence of parts, each a literal string
\* (g = 0) or a group reference \g.
ExpandTemplate(repl, s, m) ==
    LET RECURSIVE Go(_)
        Go(k) == IF k > Len(repl) THEN ""
                 ELSE (IF repl[k].g = 0 THEN repl[k].s ELSE GroupN(s, m, repl[k].g))
                      \o Go(k + 1)
    IN  Go(1)

\* re.sub(pattern, repl, s)
ReSub(re, repl, s, ic) ==
    LET RECURSIVE Go(_, _, _)
        Go(ms, k, from) ==
            IF k > Len(ms) THEN SubSeq(s, from, Len(s))
            ELSE SubSeq(s, from, ms[k].s - 1) \o ExpandTemplate(repl, s, ms[k])
                 \o Go(ms, k + 1, ms[k].e)
    IN  Go(Finditer(re, s, ic), 1, 1)

Text(str) == <<[g |-> 0, s |-> str]>>

\* The substitutions of normalize_ocr_text in source order:
\* <<pattern, replacement, IGNORECASE>>
NormalizeSteps == <<
    \* line 220
    [p |-> "\\s+", r |-> Text(" "), ic |-> FALSE],
    \* lines 223-228
    [p |-> "(?<=\\d)[OoQD](?=\\d)", r |-> Text("0"), ic |-> FALSE],
    [p |-> "(?<=\\d)[Il|](?=\\d)", r |-> Text("1"), ic |-> FALSE],
    [p |-> "[OoQD](?=\\d)", r |-> Text("0"), ic |-> FALSE],
    [p |-> "(?<=\\d)[OoQD]", r |-> Text("0"), ic |-> FALSE],
    [p |-> "[Il](?=\\d)", r |-> Text("1"), ic |-> FALSE],
    [p |-> "(?<=\\d)[Il]", r |-> Text("1"), ic |-> FALSE],
    \* lines 231-233
    [p |-> "\\bOCl\\b", r |-> Text("OCT"), ic |-> TRUE],
    [p |-> "\\bAGO5T\\b", r |-> Text("AGOST"), ic |-> TRUE],
    [p |-> "\\bSEPl\\b", r |-> Text("SEP"), ic |-> TRUE],
    \* lines 236-237
    [p |-> "([^\\w\\s])(\\d)", r |-> <<[g |-> 0, s |-> " "], [g |-> 2, s |-> ""]>>, ic |-> FALSE],
    [p |-> "(\\d)([^\\w\\s])", r |-> <<[g |-> 1, s |-> ""], [g |-> 0, s |-> " "]>>, ic |-> FALSE]
>>

normalize_ocr_text(text) ==
    LET RECURSIVE Go(_, _)
        Go(k, s) ==
            IF k > Len(NormalizeSteps) \/ Len(s) < 0 THEN s
            ELSE Go(k + 1, ReSub(Re(NormalizeSteps[k].p), NormalizeSteps[k].r, s,
                                 NormalizeSteps[k].ic))
    IN  IF Len(text) = 0 THEN text ELSE Strip(Go(1, text))

-----------------------------------------------------------------------------
(* DatePatternLearner: the functions that compute without touching the store *)

\* The characters re.escape puts a backslash before (Python 3.7 and later).
EscapedChars ==
    {"(", ")", "[", "]", "{", "}", "?", "*", "+", "-", "|", "^", "$", "\\", ".", "&", "~",
     "#", " "}

\* re.escape(s)
RECURSIVE ReEscape(_)
ReEscape(s) ==
    IF Len(s) = 0 THEN ""
    ELSE (IF Char(s, 1) \in EscapedChars THEN "\\" \o Char(s, 1) ELSE Char(s, 1))
         \o ReEscape(SubSeq(s, 2, Len(s)))

\* re.findall(pattern, s) for a pattern without groups: the matched strings
Findall(re, s, ic) ==
    LET Strings(ms) == [k \in 1 .. Len(ms) |-> Group0(s, ms[k])]
    IN  Strings(Finditer(re, s, ic))

\* The patterns of analyze_date_structure (lines 111-123)
DigitRunRe == "\\d+"
LetterRunRe == "[A-Z]+"
NonWordRe == "[^\\w]"
OneDigitRe == "\\d"

\* detect_potential_date_strings: the de-duplicated set of (candidate,
\* position) pairs; position is match.start(), counted from 0.
detect_potential_date_strings(text) ==
    LET Candidates(ms) ==
            { <<Strip(GroupN(text, ms[k], 1)), ms[k].s - 1>> : k \in 1 .. Len(ms) }
    IN  UNION { Candidates(Finditer(Re(heuristic_patterns[h]), text, TRUE))
                : h \in 1 .. Len(heuristic_patterns) }

\* analyze_date_structure: None is [ok |-> FALSE]
analyze_date_structure(date_str0) ==
    LET date_str == Strip(date_str0)
        SetOf(seq) == { seq[k] : k \in 1 .. Len(seq) }
    IN  [ok |-> SearchFrom(Re(OneDigitRe), date_str, 1, FALSE).ok,
         original |-> date_str,
         digit_groups |-> Findall(Re(DigitRunRe), date_str, FALSE),
         letter_groups |-> Findall(Re(LetterRunRe), date_str, TRUE),
         separators |-> SetOf(Findall(Re(NonWordRe), date_str, FALSE))]

month_pattern == "(JAN|FEB|MAR|APR|MAY|JUN|JUL|AUG|SEP|SEPT|OCT|NOV|DEC)"

flexible_separator == "\\s*[\\/\\-\\.\\s]\\s*"

\* generate_regex_from_structure.  sep_order is the order in which the
\* separators come out of list(set(...)) at line 131.
generate_regex_from_structure(structure, sep_order) ==
    LET RECURSIVE Digits(_, _)
        Digits(k, escaped) ==
            IF k > Len(structure.digit_groups) THEN escaped
            ELSE LET dg == structure.digit_groups[k]
                     by == IF Len(dg) <= 2 THEN "(\\d{1,2})"
                           ELSE IF Len(dg) = 4 THEN "(\\d{4})"
                           ELSE "(\\d{2,4})"
                 IN  Digits(k + 1, ReplaceFirst(escaped, ReEscape(dg), by))
        RECURSIVE Letters(_, _)
        Letters(k, escaped) ==
            IF k > Len(structure.letter_groups) THEN escaped
            ELSE LET lg == structure.letter_groups[k]
                 IN  Letters(k + 1,
                             IF Len(lg) \in {3, 4}
                             THEN ReplaceFirst(escaped, ReEscape(StrUpper(lg)), month_pattern)
                             ELSE escaped)
        RECURSIVE Seps(_, _)
        Seps(k, escaped) ==
            IF k > Len(sep_order) THEN escaped
            ELSE Seps(k + 1,
                      IF sep_order[k] \in {"-", "/", ".", " "}
                      THEN ReplaceAll(escaped, ReEscape(sep_order[k]), flexible_separator)
                      ELSE escaped)
    IN  "\\b" \o Seps(1, Letters(1, Digits(1, ReEscape(structure.original)))) \o "\\b"

\* "x in s" for strings
Contains(s, t) == StrFind(s, t, 1) > 0

\* _validate_pattern; compiled is re.compile(pattern), ok = FALSE for
\* re.error
validate_pattern(pattern, compiled) ==
    /\ Len(pattern) >= 10
    /\ Contains(pattern, "(")
    /\ Contains(pattern, "\\d")
    /\ compiled.ok
-----------------------------------------------------------------------------
(* parse_date_robust                                                        *)

\* dateparser.parse(date_str, languages=['es', 'en'], settings={DATE_ORDER:
\* 'DMY', ...}) is a library outside the source.  What the model takes from
\* it: a string made of day, month and 4-digit year numbers separated by
\* "/", "-", "." or spaces is read day first, at midnight; a string that is
\* not of this form gives None.  Two things are left open, and lenient
\* says the library does both: whether it skips words it does not know in
\* front of such a date, and whether it reads a run of 8 digits without
\* separators by itself, day first as DATE_ORDER asks.
DateparserNumericRe ==
    "(\\d{1,2})\\s*[\\/\\-\\.\\s]\\s*(\\d{1,2})\\s*[\\/\\-\\.\\s]\\s*(\\d{4})"

LeadingWordsRe == "[A-Za-z:\\s]*"

\* datetime(year, month, day), NoDate where it raises ValueError
DatetimeOf(year, month, day) ==
    IF ValidCivil(year, month, day) THEN MidnightOf(year, month, day) ELSE NoDate

DateparserParse(date_str, lenient) ==
    LET Numeric(m) ==
            IF m.ok /\ m.e = Len(date_str) + 1
            THEN DatetimeOf(StrToNat(GroupN(date_str, m, 3)),
                            StrToNat(GroupN(date_str, m, 2)),
                            StrToNat(GroupN(date_str, m, 1)))
            ELSE NoDate
        After(skip) ==
            Numeric(MatchAt(Re(DateparserNumericRe), date_str,
                            IF lenient /\ skip.ok THEN skip.e ELSE 1, FALSE))
    IN  IF lenient /\ Len(date_str) = 8 /\ IsDigitStr(date_str)
        THEN DatetimeOf(StrToNat(SubSeq(date_str, 5, 8)),
                        StrToNat(SubSeq(date_str, 3, 4)),
                        StrToNat(SubSeq(date_str, 1, 2)))
        ELSE After(MatchAt(Re(LeadingWordsRe), date_str, 1, FALSE))

\* line 268
CompactSpanishRe == "(\\d{1,2})(ENE|FEB|MAR|ABR|MAY|JUN|JUL|AGO|SEP|OCT|NOV|DIC)(\\d{2,4})"

\* lines 271-274
month_map ==
    [ENE |-> 1, FEB |-> 2, MAR |-> 3, ABR |-> 4, MAY |-> 5, JUN |-> 6,
     JUL |-> 7, AGO |-> 8, SEP |-> 9, OCT |-> 10, NOV |-> 11, DIC |-> 12]

\* ParseCompact with every 2-digit year read in the 1900s
ParseCompact_Century1900(date_str) ==
    LET FullYear(year) == IF year < 100 THEN year + 1900 ELSE year
        Compact(m) ==
            IF ~m.ok THEN NoDate
            ELSE DatetimeOf(FullYear(StrToNat(GroupN(date_str, m, 3))),
                            month_map[StrUpper(GroupN(date_str, m, 2))],
                            StrToNat(GroupN(date_str, m, 1)))
    IN  Compact(MatchAt(Re(CompactSpanishRe), date_str, 1, TRUE))

\* Strategy 2 (lines 268-282): NoDate when the regex does not match at the
\* start or datetime() raises.
ParseCompact(date_str) ==
    LET FullYear(year) ==
            IF year < 100 THEN year + (IF year < 50 THEN 2000 ELSE 1900) ELSE year
        Compact(m) ==
            IF ~m.ok THEN NoDate
            ELSE DatetimeOf(FullYear(StrToNat(GroupN(date_str, m, 3))),
                            month_map[StrUpper(GroupN(date_str, m, 2))],
                            StrToNat(GroupN(date_str, m, 1)))
    IN  Compact(MatchAt(Re(CompactSpanishRe), date_str, 1, TRUE))

\* Strategy 3 (lines 285-300): YYYYMMDD, then DDMMYYYY
ParseEightDigits(date_str) ==
    IF ~(Len(date_str) = 8 /\ IsDigitStr(date_str)) THEN NoDate
    ELSE LET Try(y, m, d) ==
                 IF 1900 <= y /\ y <= 2100 /\ 1 <= m /\ m <= 12 /\ 1 <= d /\ d <= 31
                 THEN DatetimeOf(y, m, d) ELSE NoDate
             Else(a, b) == IF a # NoDate THEN a ELSE b
         IN  Else(Try(StrToNat(SubSeq(date_str, 1, 4)), StrToNat(SubSeq(date_str, 5, 6)),
                      StrToNat(SubSeq(date_str, 7, 8))),
                  Try(StrToNat(SubSeq(date_str, 5, 8)), StrToNat(SubSeq(date_str, 3, 4)),
                      StrToNat(SubSeq(date_str, 1, 2))))

parse_date_robust(date_str, lenient) ==
    IF Len(date_str) = 0 THEN NoDate
    ELSE LET Else(a, b) == IF a # NoDate THEN a ELSE b
         IN  Else(DateparserParse(date_str, lenient),
                  Else(ParseCompact(date_str), ParseEightDigits(date_str)))
-----------------------------------------------------------------------------
(* The store in memory: learned_patterns is a list of patterns,             *)
(* pattern_usage a Counter, kept as the sequence of its <<key, count>>      *)
(* items in insertion order (a dict keeps that order).                      *)

UsageKeys(usage) == { usage[k][1] : k \in 1 .. Len(usage) }

\* pattern_usage[key] of a Counter: 0 for a missing key
UsageGet(usage, key) ==
    IF key \in UsageKeys(usage)
    THEN usage[CHOOSE k \in 1 .. Len(usage) : usage[k][1] = key][2]
    ELSE 0

\* pattern_usage[key] = value
UsageSet(usage, key, value) ==
    IF key \in UsageKeys(usage)
    THEN [k \in 1 .. Len(usage) |->
            IF usage[k][1] = key THEN <<key, value>> ELSE usage[k]]
    ELSE Append(usage, <<key, value>>)

\* pattern_usage[key] += 1
UsageInc(usage, key) == UsageSet(usage, key, UsageGet(usage, key) + 1)

\* The Counter as a mapping: two Counters are equal when these are.
UsageMap(usage) == [key \in UsageKeys(usage) |-> UsageGet(usage, key)]

\* "x in list"
InList(x, list) == \E k \in 1 .. Len(list) : list[k] = x

-----------------------------------------------------------------------------
(* json.dump(data, f, indent=2, ensure_ascii=False) and json.load(f): the   *)
(* file is the sequence of its lines.                                       *)

Digit(d) == Chr(48 + d)

\* str(n) for n >= 0
RECURSIVE IntToStr(_)
IntToStr(n) == IF n < 10 THEN Digit(n) ELSE IntToStr(n \div 10) \o Digit(n % 10)

Pad2(n) == IF n < 10 THEN "0" \o IntToStr(n) ELSE IntToStr(n)

Pad4(n) ==
    IF n < 10 THEN "000" \o IntToStr(n)
    ELSE IF n < 100 THEN "00" \o IntToStr(n)
    ELSE IF n < 1000 THEN "0" \o IntToStr(n)
    ELSE IntToStr(n)

\* strftime with the day first
StrftimeYmd_DayFirst(t) ==
    LET c == CivilFromDays(DateOf(t))
    IN  Pad2(c[3]) \o "-" \o Pad2(c[2]) \o "-" \o Pad4(c[1])

\* date_obj.strftime("%Y-%m-%d")
StrftimeYmd(t) ==
    LET c == CivilFromDays(DateOf(t))
    IN  Pad4(c[1]) \o "-" \o Pad2(c[2]) \o "-" \o Pad2(c[3])

\* datetime.isoformat(), to the hour
IsoFormat(t) ==
    StrftimeYmd(t) \o "T" \o Pad2(((t % TicksPerDay) * 24) \div TicksPerDay) \o ":00:00"

\* JsonEscape leaving the backslashes as they are
JsonEscape_QuotesOnly(s) ==
    LET RECURSIVE Escaped(_, _)
        Escaped(lo, hi) ==
            IF lo > hi THEN ""
            ELSE IF lo = hi
            THEN (IF Char(s, lo) = "\"" THEN "\\" \o Char(s, lo) ELSE Char(s, lo))
            ELSE Once(LAMBDA mid : Escaped(lo, mid) \o Escaped(mid + 1, hi), (lo + hi) \div 2)
    IN  Once(LAMBDA len : Escaped(1, len), Len(s))

\* The JSON text of the characters of a string: a backslash before every
\* backslash and double quote.
JsonEscape(s) ==
    LET RECURSIVE Escaped(_, _)
        Escaped(lo, hi) ==
            IF lo > hi THEN ""
            ELSE IF lo = hi
            THEN (IF Char(s, lo) \in {"\\", "\""} THEN "\\" \o Char(s, lo) ELSE Char(s, lo))
            ELSE Once(LAMBDA mid : Escaped(lo, mid) \o Escaped(mid + 1, hi),
                      (lo + hi) \div 2)
    IN  Once(LAMBDA len : Escaped(1, len), Len(s))

JsonString(s) == "\"" \o JsonEscape(s) \o "\""

\* Reads the JSON string that starts at s[i]: [ok, v, e] with v the decoded
\* value and e the index after the closing quote.  A backslash escapes the
\* character after it, which must be a backslash, a quote or a slash; the
\* string closes at the first quote that is not escaped.
JsonReadString(s, i) ==
    LET bad == [ok |-> FALSE, v |-> "", e |-> 0]
        \* the number of backslashes in a row right before s[j]
        RECURSIVE Slashes(_)
        Slashes(j) == IF j - 1 > i /\ Char(s, j - 1) = "\\" THEN 1 + Slashes(j - 1) ELSE 0
        Escapes(j) == Char(s, j) = "\\" /\ Slashes(j) % 2 = 0
        RECURSIVE Value(_, _)
        Value(lo, hi) ==
            IF lo > hi THEN ""
            ELSE IF lo = hi THEN (IF Escapes(lo) THEN "" ELSE Char(s, lo))
            ELSE Value(lo, (lo + hi) \div 2) \o Value((lo + hi) \div 2 + 1, hi)
        Read(quotes) ==
            IF quotes = {} THEN bad
            ELSE LET close == CHOOSE j \in quotes : \A q \in quotes : j <= q
                 IN  IF \A j \in i + 1 .. close - 1 :
                           Escapes(j) => Char(s, j + 1) \in {"\\", "\"", "/"}
                     THEN [ok |-> TRUE, v |-> Value(i + 1, close - 1), e |-> close + 1]
                     ELSE bad
    IN  IF i <= Len(s) /\ Char(s, i) = "\""
        THEN Read({ j \in i + 1 .. Len(s) : Char(s, j) = "\"" /\ Slashes(j) % 2 = 0 })
        ELSE bad

\* The lines of the items of a list or an object, the last without comma
JsonItems(items) ==
    [k \in 1 .. Len(items) |->
        "    " \o items[k] \o (IF k < Len(items) THEN "," ELSE "")]

\* One member of the top-level object
JsonMember(key, open, close, items, last) ==
    LET tail == IF last THEN "" ELSE ","
    IN  IF Len(items) = 0
        THEN << "  " \o JsonString(key) \o ": " \o open \o close \o tail >>
        ELSE << "  " \o JsonString(key) \o ": " \o open >>
             \o JsonItems(items) \o << "  " \o close \o tail >>

\* json.dump of {'patterns': ..., 'usage': ..., 'last_updated': ...}
JsonDump(data) ==
    << "{" >>
    \o JsonMember("patterns", "[", "]",
                  [k \in 1 .. Len(data.patterns) |-> JsonString(data.patterns[k])],
                  FALSE)
    \o JsonMember("usage", "{", "}",
                  [k \in 1 .. Len(data.usage) |->
                      JsonString(data.usage[k][1]) \o ": " \o IntToStr(data.usage[k][2])],
                  FALSE)
    \o << "  " \o JsonString("last_updated") \o ": " \o JsonString(data.last_updated) >>
    \o << "}" >>

JsonBad == [ok |-> FALSE, patterns |-> <<>>, usage |-> <<>>]

\* Reads the item lines from line i up to the line that closes the
\* container: [ok, items, next].  An item is a string (a list) or a string,
\* a colon and a number (an object).
JsonReadItems(lines, i, close, withValue) ==
    LET bad == [ok |-> FALSE, items |-> <<>>, next |-> 0]
        RECURSIVE Go(_, _)
        Go(k, acc) ==
            IF k > Len(lines) THEN bad
            ELSE IF lines[k] = "  " \o close \o "," THEN
                 \* the item before the closing line carries no comma
                 [ok |-> TRUE, items |-> acc, next |-> k + 1]
            ELSE IF ~StartsAt(lines[k], 1, "    ") THEN bad
            ELSE LET closes == k + 1 <= Len(lines) /\ lines[k + 1] = "  " \o close \o ","
                     Item(str) ==
                         LET rest == IF str.ok THEN SubSeq(lines[k], str.e, Len(lines[k]))
                                     ELSE ""
                             comma == Len(rest) > 0 /\ Char(rest, Len(rest)) = ","
                             body == IF comma THEN SubSeq(rest, 1, Len(rest) - 1) ELSE rest
                         IN  IF ~str.ok \/ comma = closes THEN bad
                             ELSE IF withValue
                             THEN IF /\ StartsAt(body, 1, ": ")
                                     /\ IsDigitStr(SubSeq(body, 3, Len(body)))
                                  THEN Go(k + 1,
                                          Append(acc, <<str.v,
                                                        StrToNat(SubSeq(body, 3, Len(body)))>>))
                                  ELSE bad
                             ELSE IF body = "" THEN Go(k + 1, Append(acc, str.v))
                             ELSE bad
                 IN  Item(JsonReadString(lines[k], 5))
        NotEmpty(first) == IF first.ok /\ Len(first.items) = 0 THEN bad ELSE first
    IN  NotEmpty(Go(i, <<>>))

\* Reads one member written by JsonMember: [ok, items, next]
JsonReadMember(lines, i, key, open, close, withValue) ==
    LET head == "  " \o JsonString(key) \o ": " \o open
    IN  IF i > Len(lines) THEN [ok |-> FALSE, items |-> <<>>, next |-> 0]
        ELSE IF lines[i] = head \o close \o "," THEN [ok |-> TRUE, items |-> <<>>, next |-> i + 1]
        ELSE IF lines[i] = head THEN JsonReadItems(lines, i + 1, close, withValue)
        ELSE [ok |-> FALSE, items |-> <<>>, next |-> 0]

\* json.load of a file of this shape, followed by data.get('patterns', [])
\* and data.get('usage', {}); ok = FALSE is the exception json.load raises
\* on any other text (an empty or cut-off file among them).
JsonLoad(lines) ==
    IF Len(lines) = 0 \/ lines[1] # "{" THEN JsonBad
    ELSE LET stamp == "  \"last_updated\": "
             Closed(str, k) == str.ok /\ str.e = Len(lines[k]) + 1
             Usage(ps, us) ==
                 IF /\ us.ok
                    /\ Len(lines) = us.next + 1
                    /\ StartsAt(lines[us.next], 1, stamp)
                    /\ Closed(JsonReadString(lines[us.next], Len(stamp) + 1), us.next)
                    /\ lines[us.next + 1] = "}"
                 THEN [ok |-> TRUE, patterns |-> ps.items, usage |-> us.items]
                 ELSE JsonBad
             Patterns(ps) ==
                 IF ~ps.ok THEN JsonBad
                 ELSE Usage(ps, JsonReadMember(lines, ps.next, "usage", "{", "}", TRUE))
         IN  Patterns(JsonReadMember(lines, 2, "patterns", "[", "]", FALSE))
-----------------------------------------------------------------------------
(* The results of the text functions, computed once for the texts in use    *)

\* The orders in which a set can be listed: list(set(...)) gives one of them.
Perms(S) ==
    { f \in [1 .. Cardinality(S) -> S] : \A x \in S : \E i \in 1 .. Cardinality(S) : f[i] = x }

\* The matches of a compiled pattern in a text as find_date uses them:
\* match.start() and match.group(0); <<>> for a pattern re.compile rejects.
MatchList(compiled, text) ==
    LET Matches(ms) ==
            [k \in 1 .. Len(ms) |-> [start |-> ms[k].s - 1, text |-> Group0(text, ms[k])]]
    IN  IF ~compiled.ok THEN <<>> ELSE Matches(Finditer(compiled, text, TRUE))

\* The tables are built one after the other, each from the ones before.
\* raw: texts as the OCR gives them; direct: texts handed to find_date as
\* they are.
MemoNormalize(raw, direct) ==
    [normalize |-> [t \in raw |-> normalize_ocr_text(t)], direct |-> direct]

MemoTexts(m) == { m.normalize[t] : t \in DOMAIN m.normalize } \cup m.direct

MemoDetect(m) ==
    m @@ [detect |-> [t \in MemoTexts(m) |-> detect_potential_date_strings(t)]]

MemoStructure(m) ==
    m @@ [structure |->
            [c \in { c[1] : c \in UNION { m.detect[t] : t \in DOMAIN m.detect } } |->
                analyze_date_structure(c)]]

MemoGenerated(m) ==
    m @@ [generated |->
            [c \in DOMAIN m.structure |->
                IF m.structure[c].ok
                THEN [o \in Perms(m.structure[c].separators) |->
                         generate_regex_from_structure(m.structure[c], o)]
                ELSE <<>>]]

\* Patterns that a store file found at start-up may hold although the
\* learner never wrote them (the file is edited, or comes from elsewhere).
ForeignPatterns == { "\\d+" }

MemoCompiled(m) ==
    m @@ [compiled |->
            [p \in ForeignPatterns
                   \cup UNION { { m.generated[c][o] : o \in DOMAIN m.generated[c] }
                                : c \in DOMAIN m.generated } |-> Compile(p)]]

MemoFinditer(m) ==
    m @@ [finditer |->
            [pt \in ({ BASE_DATE_PATTERNS[i] : i \in 1 .. Len(BASE_DATE_PATTERNS) }
                      \cup DOMAIN m.compiled) \X MemoTexts(m) |->
                MatchList(IF pt[1] \in DOMAIN m.compiled THEN m.compiled[pt[1]]
                          ELSE Re(pt[1]),
                          pt[2])]]

MemoParse(m) ==
    m @@ [parse |->
            [sl \in (UNION { { m.finditer[pt][k].text : k \in 1 .. Len(m.finditer[pt]) }
                             : pt \in DOMAIN m.finditer }) \X BOOLEAN |->
                parse_date_robust(sl[1], sl[2])]]

MemoOf(raw, direct) ==
    MemoParse(MemoFinditer(MemoCompiled(MemoGenerated(MemoStructure(MemoDetect(
        MemoNormalize(raw, direct)))))))

-----------------------------------------------------------------------------
(* find_date                                                                *)

\* The score of find_date (lines 141-146),
\*   validation * 0.5 + (1 - i/n * 0.5) * 0.3 + (1 - start/len * 0.3) * 0.2,
\* kept exact as the fraction num / (100 * den): validation is in tenths, i
\* is the 0-based pattern index, n the number of patterns, len the length
\* of the text.
ScoreNum(validation, i, n, start, len) ==
    5 * validation * n * len + 50 * n * len - 15 * i * len - 6 * start * n

ScoreDen(n, len) == n * len

\* score a < score b
ScoreLess(a, b) == a.num * b.den < b.num * a.den

\* lines 111-164: the candidates in the order find_date appends them, and
\* the usage counts after the loop.
FindCandidates(text, learned, usage, now, lenient) ==
    LET all_patterns == learned \o BASE_DATE_PATTERNS
        n == Len(all_patterns)
        \* the candidate of match k of pattern i, or <<>>
        Candidate(i, k) ==
            LET m == memo.finditer[<<all_patterns[i], text>>][k]
                parsed_date == memo.parse[<<m.text, lenient>>]
                v == validate_date_for_products(parsed_date, now)
            IN  IF parsed_date = NoDate \/ ~v[1] THEN <<>>
                ELSE << [date |-> parsed_date,
                         num |-> ScoreNum(v[2], i - 1, n, m.start, Len(text)),
                         den |-> ScoreDen(n, Len(text)),
                         text |-> m.text,
                         position |-> m.start,
                         pattern_index |-> i - 1] >>
        RECURSIVE OfPattern(_, _)
        OfPattern(i, k) ==
            IF k > Len(memo.finditer[<<all_patterns[i], text>>]) THEN <<>>
            ELSE Candidate(i, k) \o OfPattern(i, k + 1)
        RECURSIVE Loop(_, _, _)
        Loop(i, candidates, counts) ==
            IF i > n THEN [candidates |-> candidates, usage |-> counts]
            ELSE LET RECURSIVE Mark(_, _)
                     Mark(j, c) == IF j = 0 THEN c
                                   ELSE Mark(j - 1, UsageInc(c, all_patterns[i]))
                     Found(found) ==
                         Loop(i + 1, candidates \o found,
                              IF InList(all_patterns[i], learned)
                              THEN Mark(Len(found), counts) ELSE counts)
                 IN  Once(Found, OfPattern(i, 1))
    IN  Loop(1, <<>>, usage)

\* best taken without the sort: the first candidate appended
BestCandidate_FirstAppended(candidates) == candidates[1]

\* lines 177-186: candidates.sort(key=score, reverse=True) keeps the order
\* of equal scores, so best is the first candidate of the greatest score.
BestCandidate(candidates) ==
    candidates[CHOOSE k \in 1 .. Len(candidates) :
                  /\ \A j \in 1 .. Len(candidates) : ~ScoreLess(candidates[k], candidates[j])
                  /\ \A j \in 1 .. k - 1 : ScoreLess(candidates[j], candidates[k])]

\* learn_from_candidate counting on from the count the pattern string had
\* instead of setting it to 1
learn_from_candidate_CountsOn(candidate, sep_order, learned, usage) ==
    LET Same(outcome) ==
            [learned_new |-> FALSE, learned |-> learned, usage |-> usage,
             outcome |-> outcome]
        Known(new_pattern) ==
            IF ~validate_pattern(new_pattern, memo.compiled[new_pattern])
            THEN Same("rejected")
            ELSE IF InList(new_pattern, learned)
            THEN [Same("exists") EXCEPT !.usage = UsageInc(usage, new_pattern)]
            ELSE [learned_new |-> TRUE,
                  learned |-> Append(learned, new_pattern),
                  usage |-> UsageInc(usage, new_pattern),
                  outcome |-> "new"]
    IN  IF ~memo.structure[candidate].ok THEN Same("no_structure")
        ELSE Known(memo.generated[candidate][sep_order])

\* learn_from_candidate without the save: [learned_new, learned, usage,
\* outcome].  learned_new is the value returned; outcome tells the return
\* statement taken: "no_structure" (line 208), "rejected" (line 218),
\* "exists" (line 224) or "new" (line 234); line 213 is never reached, as
\* generate_regex_from_structure raises nothing on an analysed structure.
\* sep_order is the order of the separators in the analysed structure.
learn_from_candidate(candidate, sep_order, learned, usage) ==
    LET Same(outcome) ==
            [learned_new |-> FALSE, learned |-> learned, usage |-> usage,
             outcome |-> outcome]
        Known(new_pattern) ==
            IF ~validate_pattern(new_pattern, memo.compiled[new_pattern])
            THEN Same("rejected")
            ELSE IF InList(new_pattern, learned)
            THEN [Same("exists") EXCEPT !.usage = UsageInc(usage, new_pattern)]
            ELSE [learned_new |-> TRUE,
                  learned |-> Append(learned, new_pattern),
                  usage |-> UsageSet(usage, new_pattern, 1),
                  outcome |-> "new"]
    IN  IF ~memo.structure[candidate].ok THEN Same("no_structure")
        ELSE Known(memo.generated[candidate][sep_order])

\* The orders in which the learning loop may see the potential dates of a
\* text (line 96 lists a set), each candidate with one order of its
\* separators (line 131 lists a set): sequences of <<candidate, sep_order>>.
LearningOrders(text) ==
    LET potential == memo.detect[text]
        cands == { c[1] : c \in potential }
        SepOrders(c) == IF memo.structure[c].ok THEN DOMAIN memo.generated[c] ELSE { <<>> }
        choices == { f \in [cands -> UNION { SepOrders(c) : c \in cands }] :
                        \A c \in cands : f[c] \in SepOrders(c) }
    IN  { [k \in 1 .. Len(o) |-> <<o[k][1], f[o[k][1]]>>] :
            o \in Perms(potential), f \in choices }

\* The learning loop leaving at the first candidate, learned or not
LearningLoop_StopsAtFirstFailure(order, learned, usage) ==
    IF Len(order) = 0
    THEN [learned_new |-> FALSE, learned |-> learned, usage |-> usage, calls |-> <<>>]
    ELSE LET After(r) ==
                 [learned_new |-> r.learned_new, learned |-> r.learned,
                  usage |-> r.usage,
                  calls |-> << [candidate |-> order[1][1], returned |-> r.learned_new,
                                outcome |-> r.outcome,
                                learned0 |-> learned, usage0 |-> usage,
                                learned1 |-> r.learned, usage1 |-> r.usage] >>]
         IN  Once(After, learn_from_candidate(order[1][1], order[1][2], learned, usage))

\* lines 167-175: the loop over the potential dates, up to the first
\* candidate that teaches a new pattern.  calls lists the calls of
\* learn_from_candidate made: the candidate, the store before and after
\* the call (the save apart), the value returned and the outcome.
LearningLoop(order, learned, usage) ==
    LET Call(k, counts, r) ==
            [candidate |-> order[k][1], returned |-> r.learned_new,
             outcome |-> r.outcome,
             learned0 |-> learned, usage0 |-> counts,
             learned1 |-> r.learned, usage1 |-> r.usage]
        RECURSIVE Go(_, _, _)
        Go(k, counts, calls) ==
            IF k > Len(order)
            THEN [learned_new |-> FALSE, learned |-> learned, usage |-> counts,
                  calls |-> calls]
            ELSE LET After(r) ==
                         IF r.learned_new
                         THEN [learned_new |-> TRUE, learned |-> r.learned,
                               usage |-> r.usage,
                               calls |-> Append(calls, Call(k, counts, r))]
                         ELSE Go(k + 1, r.usage, Append(calls, Call(k, counts, r)))
                 IN  Once(After, learn_from_candidate(order[k][1], order[k][2], learned,
                                                      counts))
    IN  Go(1, usage, <<>>)

\* "not text or not text.strip()"
IsBlank(text) == Len(Strip(text)) = 0

\* The record save_learned_patterns builds (lines 46-50)
SaveData(learned, usage, now) ==
    [patterns |-> learned, usage |-> usage, last_updated |-> IsoFormat(now)]

\* save_learned_patterns as one step: the file after it.  A write error
\* (io_ok = FALSE) is caught and logged; here it is raised by open(), which
\* leaves the file as it was.
save_learned_patterns(file, learned, usage, now, io_ok) ==
    IF io_ok THEN [exists |-> TRUE, lines |-> JsonDump(SaveData(learned, usage, now))]
    ELSE file

\* The result of the search once the candidates are known (lines 177-186)
FoundDate(candidates) ==
    IF Len(candidates) = 0 THEN [date |-> NoDate, num |-> 0, den |-> 1]
    ELSE LET Best(best) == [date |-> best.date, num |-> best.num, den |-> best.den]
         IN  Once(Best, BestCandidate(candidates))

\* find_date reaching the learning engine whenever learning is enabled,
\* validated candidates or not
FindDateSearch_LearnsWheneverEnabled(text, enable_learning, order, learned, usage, now, lenient) ==
    LET Stop(candidates, usage1, learning, calls) ==
            [saves |-> FALSE, candidates |-> candidates, learned |-> learned,
             usage |-> usage1, enable_learning |-> enable_learning,
             validated |-> Len(candidates), learning |-> learning, calls |-> calls]
        Learn(first, taught) ==
            IF ~taught.learned_new
            THEN Stop(first.candidates, taught.usage, TRUE, taught.calls)
            ELSE [saves |-> TRUE, candidates |-> <<>>, learned |-> taught.learned,
                  usage |-> taught.usage, enable_learning |-> enable_learning,
                  validated |-> Len(first.candidates), learning |-> TRUE,
                  calls |-> taught.calls]
        Search(first) ==
            IF ~enable_learning
            THEN Stop(first.candidates, first.usage, FALSE, <<>>)
            ELSE Once(LAMBDA taught : Learn(first, taught),
                      LearningLoop(order, learned, first.usage))
    IN  IF IsBlank(text) THEN Stop(<<>>, usage, FALSE, <<>>)
        ELSE Once(Search, FindCandidates(text, learned, usage, now, lenient))

\* find_date up to the point where it either returns or, having learned a
\* new pattern, is about to save it (lines 102-174, and line 233 of
\* pattern_learner.py): [saves, candidates, learned, usage, enable_learning,
\* validated, learning, calls], validated being the number of candidates
\* the loop of lines 114-164 gave and learning telling whether line 168 was
\* reached.  order is one of LearningOrders(text).
FindDateSearch(text, enable_learning, order, learned, usage, now, lenient) ==
    LET Stop(candidates, usage1, learning, calls) ==
            [saves |-> FALSE, candidates |-> candidates, learned |-> learned,
             usage |-> usage1, enable_learning |-> enable_learning,
             validated |-> Len(candidates), learning |-> learning, calls |-> calls]
        Learn(first, taught) ==
            IF ~taught.learned_new
            THEN Stop(first.candidates, taught.usage, TRUE, taught.calls)
            ELSE [saves |-> TRUE, candidates |-> <<>>, learned |-> taught.learned,
                  usage |-> taught.usage, enable_learning |-> enable_learning,
                  validated |-> Len(first.candidates), learning |-> TRUE,
                  calls |-> taught.calls]
        Search(first) ==
            IF Len(first.candidates) > 0 \/ ~enable_learning
            THEN Stop(first.candidates, first.usage, FALSE, <<>>)
            ELSE Once(LAMBDA taught : Learn(first, taught),
                      LearningLoop(order, learned, first.usage))
    IN  IF IsBlank(text) THEN Stop(<<>>, usage, FALSE, <<>>)
        ELSE Once(Search, FindCandidates(text, learned, usage, now, lenient))

\* The second call made with learning still enabled
FindDateRetry_LearningEnabled(text, order, learned, usage, now, lenient) ==
    FindDateSearch(text, TRUE, order, learned, usage, now, lenient)

\* line 175, once the save is over: find_date(text, enable_learning=False)
\* on the store as learning left it.
FindDateRetry(text, order, learned, usage, now, lenient) ==
    FindDateSearch(text, FALSE, order, learned, usage, now, lenient)

\* What is kept of one call of find_date for the record of a run.
LevelOf(p) ==
    [enable_learning |-> p.enable_learning, validated |-> p.validated,
     learning |-> p.learning, calls |-> p.calls, saves |-> p.saves]

\* find_date forgetting the pattern it learned when the save fails
find_date_DropsUnsaved(text, enable_learning, order, io_ok, learned, usage, file, now, lenient) ==
    LET Return(p, file1, levels) ==
            FoundDate(p.candidates)
            @@ [learned |-> p.learned, usage |-> p.usage, file |-> file1,
                levels |-> levels]
        RECURSIVE Level(_, _, _)
        Level(search, file1, levels) ==
            LET Searched(p) ==
                    IF ~p.saves THEN Return(p, file1, Append(levels, LevelOf(p)))
                    ELSE Level(FindDateRetry(text, order,
                                             IF io_ok THEN p.learned ELSE learned,
                                             IF io_ok THEN p.usage ELSE usage, now,
                                             lenient),
                               save_learned_patterns(file1, p.learned, p.usage, now,
                                                     io_ok),
                               Append(levels, LevelOf(p)))
            IN  Once(Searched, search)
    IN  Level(FindDateSearch(text, enable_learning, order, learned, usage, now, lenient),
              file, <<>>)

\* find_date(text, enable_learning) with everything it does to the store:
\* [date, num, den, learned, usage, file, levels], levels listing the nested
\* calls of find_date, outermost first.  A call that learns saves (io_ok
\* tells whether the write succeeds) and calls find_date again.
find_date(text, enable_learning, order, io_ok, learned, usage, file, now, lenient) ==
    LET Return(p, file1, levels) ==
            FoundDate(p.candidates)
            @@ [learned |-> p.learned, usage |-> p.usage, file |-> file1,
                levels |-> levels]
        RECURSIVE Level(_, _, _)
        Level(search, file1, levels) ==
            LET Searched(p) ==
                    IF ~p.saves THEN Return(p, file1, Append(levels, LevelOf(p)))
                    ELSE Level(FindDateRetry(text, order, p.learned, p.usage, now,
                                             lenient),
                               save_learned_patterns(file1, p.learned, p.usage, now,
                                                     io_ok),
                               Append(levels, LevelOf(p)))
            IN  Once(Searched, search)
    IN  Level(FindDateSearch(text, enable_learning, order, learned, usage, now, lenient),
              file, <<>>)
-----------------------------------------------------------------------------
(* The validator called on its own: every "now" of NowDates, at midnight or *)
(* later in the day, and every date_obj within the window around it.        *)

\* Civil dates the clock may show when the validator runs.
NowDates == { <<2024, 2, 29>>, <<2025, 11, 4>>, <<2027, 1, 1>>, <<2028, 3, 1>> }

\* How far before and after "now" the argument ranges, in days.
MaxPastDays == 1500
MaxFutureDays == 3700

CivilTick(c) == DaysFromCivil(c[1], c[2], c[3]) * TicksPerDay

NowTicks == { CivilTick(c) + f : c \in NowDates, f \in 0 .. TicksPerDay - 1 }

\* The parts of the state a specification does not use stay as they are here.
VdIdle == vd_now = 0 /\ vd_date = 0 /\ vd_pc = "off" /\ vd_ret = <<FALSE, 0>>
EnvIdle == memo = <<>> /\ clock_now = 0 /\ dp_lenient = FALSE
StoreIdle ==
    /\ learned_file = [exists |-> FALSE, lines |-> <<>>]
    /\ learned_patterns = <<>>
    /\ pattern_usage = <<>>
PsIdle == ps_pc = "off" /\ ps_n = 0 /\ ps_text = "" /\ ps_ret = NoDate /\ ps_call = <<>>
StIdle == st_pc = "off" /\ st_call = <<>> /\ hist = <<>>
ImgIdle ==
    /\ img_pc = "off" /\ img_i = 0 /\ all_dates = <<>> /\ img_ret = "" /\ img_log = <<>>
PdIdle == pd_pc = "off" /\ pd_str = "" /\ pd_lenient = FALSE /\ pd_ret = NoDate
ThIdle == th_pc = <<>> /\ th_arg = <<>> /\ th_n = 0

VdInit ==
    /\ vd_now \in NowTicks
    /\ vd_date \in (vd_now - MaxPastDays * TicksPerDay) ..
                   (vd_now + MaxFutureDays * TicksPerDay)
    /\ vd_pc = "call"
    /\ vd_ret = <<FALSE, 0>>
    /\ EnvIdle /\ StoreIdle /\ PsIdle /\ StIdle /\ ImgIdle /\ PdIdle /\ ThIdle

VdCall ==
    /\ vd_pc = "call"
    /\ vd_ret' = validate_date_for_products(vd_date, vd_now)
    /\ vd_pc' = "ret"
    /\ UNCHANGED <<vd_now, vd_date, outsideVd>>

VdNext == VdCall

SpecValidate == VdInit /\ [][VdNext]_vars

-----------------------------------------------------------------------------
(* Claims about the validator (SpecValidate)                                *)

\* The civil date of the clock reading vd_now.
VdNowCivil ==
    CHOOSE c \in NowDates : \E f \in 0 .. TicksPerDay - 1 : CivilTick(c) + f = vd_now

\* The instant exactly k years from now: same month, day and time of day.
VdYearsFromNow(k) ==
    LET c == VdNowCivil
    IN  CivilTick(<<c[1] + k, c[2], c[3]>>) + (vd_now - CivilTick(c))

\* years-from-now of the call, in 1/1461 years, as the claims compute it:
\* (date - now).days / 365.25
VdYearsFromNowOfCall == 4 * ((vd_date - vd_now) \div TicksPerDay)

\* C5: the validator returns invalid exactly when years-from-now is outside
\* [-3, +10]; otherwise valid with plausibility 1.0 in [-1, +5], 0.7 in
\* [-3, -1), 0.6 in (+5, +10], and 0.5 for any other in-range value.
C5_ValidatorTiers ==
    vd_pc = "ret" =>
        LET y == VdYearsFromNowOfCall
            inRange == -3 * 1461 <= y /\ y <= 10 * 1461
        IN  /\ vd_ret[1] = inRange
            /\ ~inRange => vd_ret[2] = 0
            /\ inRange =>
                 vd_ret[2] = CASE -1 * 1461 <= y /\ y <= 5 * 1461 -> 10
                               [] -3 * 1461 <= y /\ y < -1 * 1461 -> 7
                               [] 5 * 1461 < y /\ y <= 10 * 1461 -> 6
                               [] OTHER -> 5

\* C5 witness: a call with a date between 3 and 1 years old returned
\* (valid, 0.7).
C5_Witness ==
    /\ vd_pc = "ret"
    /\ VdYearsFromNowOfCall < -1 * 1461
    /\ vd_ret = <<TRUE, 7>>

\* C6 as stated: a date exactly 4 years before now is valid, a date exactly
\* 9 years after now is valid, and a date 3 years plus 1 day before now is
\* invalid.
C6_Original ==
    vd_pc = "ret" =>
        /\ vd_date = VdYearsFromNow(-4) => vd_ret[1]
        /\ vd_date = VdYearsFromNow(9) => vd_ret[1]
        /\ vd_date = VdYearsFromNow(-3) - TicksPerDay => ~vd_ret[1]

\* C6 as amended: a date exactly 4 years before now is invalid (it is
\* outside the 3-year window), a date exactly 9 years after now is valid,
\* and a date 3 years plus 1 day before now is invalid.
C6_WindowBoundary ==
    vd_pc = "ret" =>
        /\ vd_date = VdYearsFromNow(-4) => ~vd_ret[1]
        /\ vd_date = VdYearsFromNow(9) => vd_ret[1]
        /\ vd_date = VdYearsFromNow(-3) - TicksPerDay => ~vd_ret[1]

\* C6 witness: the validator was called with the date exactly 4 years before
\* now and rejected it.
C6_Witness ==
    /\ vd_pc = "ret"
    /\ vd_date = VdYearsFromNow(-4)
    /\ ~vd_ret[1]

-----------------------------------------------------------------------------
(* The process: importing the modules builds the learner singleton, which   *)
(* loads the file (pattern_learner.py line 278, lines 23-41)                *)

\* load_learned_patterns on a fresh learner: [learned, usage].  A file that
\* is not a JSON document raises inside the try; the handler leaves the
\* empty list and the empty Counter of __init__.
load_learned_patterns(file) ==
    IF ~file.exists THEN [learned |-> <<>>, usage |-> <<>>]
    ELSE LET Loaded(data) ==
                 IF data.ok THEN [learned |-> data.patterns, usage |-> data.usage]
                 ELSE [learned |-> <<>>, usage |-> <<>>]
         IN  Loaded(JsonLoad(file.lines))

\* The clock reading of a run of the process where the time of the run is
\* not what is looked at (the validator alone is checked on all of NowTicks).
RunClocks == { CivilTick(<<2025, 11, 4>>) + 1 }

\* The import of extract_date with the texts the process will see: the
\* tables of the text functions, the clock and the library the process runs
\* with (libraries: the behaviours of dateparser to consider), and the
\* singleton.
Import(raw, direct, clocks, libraries) ==
    /\ memo' = (IF memo = <<>> THEN MemoOf(raw, direct) ELSE memo)
    /\ clock_now' \in clocks
    /\ dp_lenient' \in libraries
    /\ \E loaded \in { load_learned_patterns(learned_file) } :
          /\ learned_patterns' = loaded.learned
          /\ pattern_usage' = loaded.usage
    /\ UNCHANGED learned_file

-----------------------------------------------------------------------------
(* Calls of find_date in one process: on the text of an OCR pass, which     *)
(* goes through normalize_ocr_text first (extract_date.py lines 389-390),   *)
(* or on a text as it is                                                    *)

\* Texts one OCR pass may read.
PassTexts == { "BEST BEFORE 05/12/2026", "EXP 05/12/2026", "EXP 15JUN26", "SIN FECHA" }

\* Texts find_date is called on directly.
FindTexts ==
    { "CAD: 15JUN26", "CAD: 02OCT27", "USE PRONTO, EXP 05 12 2026",
      "01/02/2024 05/12/2026" }

\* Calls made in one run.
MaxCalls == 2

PsInit ==
    /\ ps_pc = "import" /\ ps_n = 0 /\ ps_text = "" /\ ps_ret = NoDate /\ ps_call = <<>>
    /\ VdIdle /\ EnvIdle /\ StoreIdle /\ StIdle /\ ImgIdle /\ PdIdle /\ ThIdle

PsImport ==
    /\ ps_pc = "import"
    /\ Import(PassTexts, FindTexts, RunClocks, BOOLEAN)
    /\ ps_pc' = "ready"
    /\ UNCHANGED <<ps_n, ps_text, ps_ret, ps_call, outsidePs>>

\* find_date(text, enable_learning) on the store as it is, from the call to
\* the return.
PsCall(raw, text, enable_learning) ==
    /\ ps_pc \in {"ready", "ret"}
    /\ ps_n < MaxCalls
    /\ ps_text' = raw
    /\ \E order \in LearningOrders(text) : \E io_ok \in BOOLEAN :
         \E r \in { find_date(text, enable_learning, order, io_ok, learned_patterns,
                              pattern_usage, learned_file, clock_now, dp_lenient) } :
             /\ ps_ret' = r.date
             /\ ps_call' = [text |-> text, enable_learning |-> enable_learning,
                            io_ok |-> io_ok, learned0 |-> learned_patterns,
                            usage0 |-> pattern_usage, file0 |-> learned_file,
                            levels |-> r.levels]
             /\ learned_patterns' = r.learned
             /\ pattern_usage' = r.usage
             /\ learned_file' = r.file
    /\ ps_pc' = "ret"
    /\ ps_n' = ps_n + 1
    /\ UNCHANGED <<envVars, outsidePs>>

\* One OCR pass: lines 389-390.
PsPass == \E text \in PassTexts : PsCall(text, memo.normalize[text], TRUE)

\* find_date called on a text, with or without learning.
PsFind == \E text \in FindTexts : \E enable_learning \in BOOLEAN :
              PsCall(text, text, enable_learning)

PsNext == PsImport \/ PsPass \/ PsFind

SpecPass == PsInit /\ [][PsNext]_vars

\* Once the modules are imported the process goes on running: a call that
\* can be made is made.
SpecPassLive == SpecPass /\ WF_vars(PsPass \/ PsFind)

-----------------------------------------------------------------------------
(* The life of the store: runs of the process that call find_date and       *)
(* prune_unused_patterns, with save_learned_patterns in its two steps       *)
(* (open(file, 'w') truncates, json.dump writes), crashes and restarts      *)

\* Normalized texts handed to find_date.
StoreTexts == { "EXP 05 12 2026" }

\* Arguments of prune_unused_patterns.
PruneThresholds == { 2, 3 }

\* find_date is not called any more once a count has reached MaxUsage.
MaxUsage == 3

NoFile == [exists |-> FALSE, lines |-> <<>>]

NoCall == [op |-> "none", text |-> "", lines |-> <<>>, pre |-> NoFile]

\* The file the first run of the process may find: none, or one that holds
\* a foreign pattern.
InitialFiles ==
    { NoFile }
    \cup { [exists |-> TRUE,
            lines |-> JsonDump(SaveData(<<p>>, <<>>, CivilTick(<<2025, 11, 3>>)))] :
            p \in ForeignPatterns }

\* hist: op is the last operation that completed, mutated whether it changed
\* the store in memory, write_error whether its save raised; saved is the
\* store the last complete save wrote, as long as the file still holds it;
\* crashed tells where the last run died while the process is down, pre
\* and post the file before the save it died in and the lines that save was
\* writing; calls lists the calls of learn_from_candidate the last find_date
\* made, or holds the last call of prune_unused_patterns; first_file is the
\* file the first run found.
StInit ==
    /\ st_pc = "down" /\ st_call = NoCall
    /\ learned_file \in InitialFiles
    /\ hist = [op |-> "none", mutated |-> FALSE, write_error |-> FALSE,
               saved |-> [ok |-> FALSE, learned |-> <<>>, usage |-> <<>>],
               crashed |-> "no", pre |-> NoFile,
               post |-> <<>>, calls |-> <<>>, first_file |-> learned_file]
    /\ learned_patterns = <<>>
    /\ pattern_usage = <<>>
    /\ VdIdle /\ EnvIdle /\ PsIdle /\ ImgIdle /\ PdIdle /\ ThIdle

\* The process starts.
StStart ==
    /\ st_pc = "down"
    /\ Import({}, StoreTexts, RunClocks, {FALSE})
    /\ st_pc' = "idle"
    /\ hist' = [hist EXCEPT !.op = "start", !.mutated = FALSE, !.write_error = FALSE,
                            !.crashed = "no", !.pre = NoFile, !.post = <<>>,
                            !.calls = <<>>]
    /\ UNCHANGED <<st_call, outsideSt>>

\* An operation is over: back to the caller.
StDone(op, mutated, write_error, calls) ==
    /\ st_pc' = "idle"
    /\ st_call' = NoCall
    /\ hist' = [hist EXCEPT !.op = op, !.mutated = mutated, !.write_error = write_error,
                            !.calls = calls]

\* save_learned_patterns up to open(file, 'w') (lines 45-51): the file is
\* there and empty; or open raises, the handler logs it and save returns.
StSaveOpen(op, text, learned, usage, calls) ==
    /\ learned_file' = [exists |-> TRUE, lines |-> <<>>]
    /\ st_pc' = "saving"
    /\ st_call' = [op |-> op, text |-> text,
                   lines |-> JsonDump(SaveData(learned, usage, clock_now)),
                   pre |-> learned_file]
    /\ hist' = [hist EXCEPT !.saved = [ok |-> FALSE, learned |-> <<>>, usage |-> <<>>],
                            !.calls = calls]

\* What the caller of save does after it: find_date searches again (line
\* 175), prune_unused_patterns returns.
StAfterSave(op, text) ==
    /\ learned_patterns' = learned_patterns
    /\ pattern_usage' =
          IF op = "find"
          THEN FindDateRetry(text, <<>>, learned_patterns, pattern_usage, clock_now,
                             dp_lenient).usage
          ELSE pattern_usage
    /\ st_pc' = "idle"
    /\ st_call' = NoCall

\* find_date(text), up to its return or to the open() of the save.
StFindDate ==
    /\ st_pc = "idle"
    /\ \A k \in 1 .. Len(pattern_usage) : pattern_usage[k][2] < MaxUsage
    /\ \E text \in StoreTexts : \E order \in LearningOrders(text) :
         \E p \in { FindDateSearch(text, TRUE, order, learned_patterns, pattern_usage,
                                   clock_now, dp_lenient) } :
           IF ~p.saves
           THEN /\ learned_patterns' = p.learned
                /\ pattern_usage' = p.usage
                /\ StDone("find", p.usage # pattern_usage, FALSE, p.calls)
                /\ UNCHANGED learned_file
           ELSE \/ /\ learned_patterns' = p.learned
                   /\ pattern_usage' = p.usage
                   /\ StSaveOpen("find", text, p.learned, p.usage, p.calls)
                \/ \* open() raises
                   /\ learned_patterns' = p.learned
                   /\ pattern_usage' =
                         FindDateRetry(text, order, p.learned, p.usage, clock_now,
                                       dp_lenient).usage
                   /\ StDone("find", TRUE, TRUE, p.calls)
                   /\ UNCHANGED learned_file
    /\ UNCHANGED <<envVars, outsideSt>>

\* What hist keeps of a call of prune_unused_patterns: its argument and the
\* store it was called on.
PruneCall(min_usage) ==
    << [min_usage |-> min_usage, learned0 |-> learned_patterns,
        usage0 |-> pattern_usage] >>

\* prune_unused_patterns(min_usage)
StPrune ==
    /\ st_pc = "idle"
    /\ \E min_usage \in PruneThresholds :
         \E kept \in { SelectSeq(learned_patterns,
                                 LAMBDA q : UsageGet(pattern_usage, q) >= min_usage) } :
           /\ learned_patterns' = kept
           /\ UNCHANGED pattern_usage
           /\ IF Len(kept) = Len(learned_patterns)
              THEN StDone("prune", FALSE, FALSE, PruneCall(min_usage))
                   /\ UNCHANGED learned_file
              ELSE \/ StSaveOpen("prune", "", kept, pattern_usage, PruneCall(min_usage))
                   \/ \* open() raises
                      StDone("prune", TRUE, TRUE, PruneCall(min_usage))
                      /\ UNCHANGED learned_file
    /\ UNCHANGED <<envVars, outsideSt>>

\* json.dump writes the record and the file is closed (line 52).
StSaveWrite ==
    /\ st_pc = "saving"
    /\ learned_file' = [exists |-> TRUE, lines |-> st_call.lines]
    /\ StAfterSave(st_call.op, st_call.text)
    /\ hist' = [hist EXCEPT !.op = st_call.op, !.mutated = TRUE, !.write_error = FALSE,
                            !.saved = [ok |-> TRUE, learned |-> learned_patterns,
                                       usage |-> pattern_usage]]
    /\ UNCHANGED <<envVars, outsideSt>>

\* The beginnings of a record that can be on disk when the writing stops:
\* nothing yet, or the first half of the lines.
PartialWrites(lines) == { SubSeq(lines, 1, k) : k \in {0, Len(lines) \div 2} }

\* json.dump raises part way (the disk is full): the handler logs it.
StSaveFails ==
    /\ st_pc = "saving"
    /\ \E part \in PartialWrites(st_call.lines) :
         learned_file' = [exists |-> TRUE, lines |-> part]
    /\ StAfterSave(st_call.op, st_call.text)
    /\ hist' = [hist EXCEPT !.op = st_call.op, !.mutated = TRUE, !.write_error = TRUE]
    /\ UNCHANGED <<envVars, outsideSt>>

\* The process dies: what is in memory is gone, the file stays as it is;
\* inside json.dump, with whatever part of the record had reached the disk.
StCrash ==
    /\ st_pc \in {"idle", "saving"}
    /\ IF st_pc = "saving"
       THEN \E part \in PartialWrites(st_call.lines) :
              learned_file' = [exists |-> TRUE, lines |-> part]
       ELSE UNCHANGED learned_file
    /\ learned_patterns' = <<>>
    /\ pattern_usage' = <<>>
    /\ st_pc' = "down"
    /\ st_call' = NoCall
    /\ hist' = [hist EXCEPT !.op = "none", !.mutated = FALSE, !.write_error = FALSE,
                            !.crashed = st_pc, !.calls = <<>>,
                            !.pre = st_call.pre, !.post = st_call.lines]
    /\ UNCHANGED <<envVars, outsideSt>>

StNext == StStart \/ StFindDate \/ StPrune \/ StSaveWrite \/ StSaveFails \/ StCrash

SpecStore == StInit /\ [][StNext]_vars

-----------------------------------------------------------------------------
(* parse_date_robust on 8-digit inputs (SpecParse)                          *)

\* The 2-digit pieces the inputs are made of: days, months, centuries and
\* years on both sides of the bounds of lines 289 and 297.
PdPieces ==
    { "00", "02", "12", "13", "19", "20", "21", "29", "31" }

PdInputs == { a \o b \o c \o d : a \in PdPieces, b \in PdPieces,
                                  c \in PdPieces, d \in PdPieces }

PdInit ==
    /\ pd_pc = "call"
    /\ pd_str \in PdInputs
    /\ pd_lenient \in BOOLEAN
    /\ pd_ret = NoDate
    /\ VdIdle /\ EnvIdle /\ StoreIdle /\ PsIdle /\ StIdle /\ ImgIdle /\ ThIdle

\* parse_date_robust(date_str), lines 241-302
PdParse ==
    /\ pd_pc = "call"
    /\ pd_ret' = parse_date_robust(pd_str, pd_lenient)
    /\ pd_pc' = "ret"
    /\ UNCHANGED <<pd_str, pd_lenient, outsidePd>>

PdNext == PdParse

SpecParse == PdInit /\ [][PdNext]_vars

\* The two groupings of the 8 digits of the input, as <<year, month, day>>
PdYmd ==
    << StrToNat(SubSeq(pd_str, 1, 4)), StrToNat(SubSeq(pd_str, 5, 6)),
       StrToNat(SubSeq(pd_str, 7, 8)) >>

PdDmy ==
    << StrToNat(SubSeq(pd_str, 5, 8)), StrToNat(SubSeq(pd_str, 3, 4)),
       StrToNat(SubSeq(pd_str, 1, 2)) >>

\* A grouping that is a date of the calendar with its year in [1900, 2100]
PdStructurallyValid(g) ==
    1900 <= g[1] /\ g[1] <= 2100 /\ ValidCivil(g[1], g[2], g[3])

\* C15: for an 8-digit input of which exactly one of the groupings YYYYMMDD
\* and DDMMYYYY is a valid calendar date with its year in [1900, 2100],
\* parse_date_robust returns the date of that grouping, whatever dateparser
\* (called first, line 250) makes of the 8 digits.
C15_EightDigitGrouping ==
    pd_pc = "ret" =>
        /\ (PdStructurallyValid(PdYmd) /\ ~PdStructurallyValid(PdDmy))
              => pd_ret = MidnightOf(PdYmd[1], PdYmd[2], PdYmd[3])
        /\ (PdStructurallyValid(PdDmy) /\ ~PdStructurallyValid(PdYmd))
              => pd_ret = MidnightOf(PdDmy[1], PdDmy[2], PdDmy[3])
-----------------------------------------------------------------------------
(* Threads of the server calling learn_from_candidate and                   *)
(* prune_unused_patterns on the one learner (SpecThreads): app.run serves   *)
(* each request in a thread of its own, and no statement of                 *)
(* pattern_learner.py takes a lock, so the statements of two calls          *)
(* interleave                                                               *)

Threads == { 1, 2 }

\* Normalized texts whose detected candidates the threads learn from.
ThreadTexts == { "EXP 05 12 2026" }

\* Calls of learn_from_candidate started in a run.
MaxThreadCalls == 2

\* Arguments of the call of prune_unused_patterns; one such call is made
\* in a run.
ThreadThresholds == { 1, 2 }

\* What a thread holds: the pattern of its call of learn_from_candidate;
\* of its call of prune_unused_patterns the argument, the local before, the
\* place of the iteration of line 269 in the list and the list built so
\* far.  For the properties: appended, the pattern of the last call of
\* learn_from_candidate of the thread that returned True ("" if none),
\* pruned, whether the thread made the call of prune_unused_patterns, and
\* write_error, whether a save of the thread failed.
NoThreadCall ==
    [pattern |-> "", min_usage |-> 0, before |-> 0, i |-> 0, kept |-> <<>>,
     appended |-> "", pruned |-> FALSE, write_error |-> FALSE]

ThInit ==
    /\ th_pc = [t \in Threads |-> "down"]
    /\ th_arg = [t \in Threads |-> NoThreadCall]
    /\ th_n = 0
    /\ VdIdle /\ EnvIdle /\ StoreIdle /\ PsIdle /\ StIdle /\ ImgIdle /\ PdIdle

\* The process starts: the import builds the learner (line 278).
ThStart ==
    /\ \A t \in Threads : th_pc[t] = "down"
    /\ Import({}, ThreadTexts, RunClocks, {FALSE})
    /\ th_pc' = [t \in Threads |-> "idle"]
    /\ UNCHANGED <<th_arg, th_n, outsideTh>>

\* Lines 206-218 of a call by thread t: the structure, the regex and its
\* validation touch nothing shared.  A candidate that gives no pattern
\* makes the call return False; otherwise the thread stands before line 221.
ThCall(t) ==
    /\ th_pc[t] = "idle" /\ th_n < MaxThreadCalls
    /\ \E text \in ThreadTexts : \E c \in memo.detect[text] :
          \E sep_order \in (IF memo.structure[c[1]].ok
                            THEN DOMAIN memo.generated[c[1]] ELSE { <<>> }) :
             LET Generated(new_pattern) ==
                     IF validate_pattern(new_pattern, memo.compiled[new_pattern])
                     THEN /\ th_pc' = [th_pc EXCEPT ![t] = "check"]
                          /\ th_arg' = [th_arg EXCEPT ![t].pattern = new_pattern]
                     ELSE UNCHANGED <<th_pc, th_arg>>
             IN  IF ~memo.structure[c[1]].ok THEN UNCHANGED <<th_pc, th_arg>>
                 ELSE Generated(memo.generated[c[1]][sep_order])
    /\ th_n' = th_n + 1
    /\ UNCHANGED <<envVars, storeVars, outsideTh>>

\* Lines 221-224: the pattern is there, count it and return False; or go on
\* to line 227.
ThCheck(t) ==
    /\ th_pc[t] = "check"
    /\ IF InList(th_arg[t].pattern, learned_patterns)
       THEN /\ pattern_usage' = UsageInc(pattern_usage, th_arg[t].pattern)
            /\ th_pc' = [th_pc EXCEPT ![t] = "idle"]
       ELSE /\ th_pc' = [th_pc EXCEPT ![t] = "append"]
            /\ UNCHANGED pattern_usage
    /\ UNCHANGED <<th_arg, th_n, envVars, learned_file, learned_patterns, outsideTh>>

\* Line 227
ThAppend(t) ==
    /\ th_pc[t] = "append"
    /\ learned_patterns' = Append(learned_patterns, th_arg[t].pattern)
    /\ th_pc' = [th_pc EXCEPT ![t] = "count"]
    /\ UNCHANGED <<th_arg, th_n, envVars, learned_file, pattern_usage, outsideTh>>

\* Line 228
ThCount(t) ==
    /\ th_pc[t] = "count"
    /\ pattern_usage' = UsageSet(pattern_usage, th_arg[t].pattern, 1)
    /\ th_pc' = [th_pc EXCEPT ![t] = "save"]
    /\ UNCHANGED <<th_arg, th_n, envVars, learned_file, learned_patterns, outsideTh>>

\* Lines 233-234: the save, which may fail, and the return of True.
ThSave(t) ==
    /\ th_pc[t] = "save"
    /\ \E io_ok \in BOOLEAN :
          /\ learned_file' = save_learned_patterns(learned_file, learned_patterns,
                                                   pattern_usage, clock_now, io_ok)
          /\ th_arg' = [th_arg EXCEPT ![t].appended = th_arg[t].pattern,
                                       ![t].write_error = @ \/ ~io_ok]
    /\ th_pc' = [th_pc EXCEPT ![t] = "idle"]
    /\ UNCHANGED <<th_n, envVars, learned_patterns, pattern_usage, outsideTh>>

\* prune_unused_patterns(min_usage), line 266: before = len(...), and the
\* iteration of line 269 begins on the list object.
ThPrune(t) ==
    /\ th_pc[t] = "idle"
    /\ \A u \in Threads : ~th_arg[u].pruned
    /\ \E min_usage \in ThreadThresholds :
          th_arg' = [th_arg EXCEPT ![t].min_usage = min_usage,
                                   ![t].before = Len(learned_patterns),
                                   ![t].i = 0, ![t].kept = <<>>,
                                   ![t].pruned = TRUE]
    /\ th_pc' = [th_pc EXCEPT ![t] = "filter"]
    /\ UNCHANGED <<th_n, envVars, storeVars, outsideTh>>

\* Lines 269-270: one turn of the comprehension.  The iterator reads the
\* list object as it is now, with what other threads appended meanwhile;
\* past its end the new list is complete.
ThFilter(t) ==
    /\ th_pc[t] = "filter"
    /\ IF th_arg[t].i < Len(learned_patterns)
       THEN /\ th_arg' =
                  [th_arg EXCEPT
                     ![t].i = @ + 1,
                     ![t].kept =
                        IF UsageGet(pattern_usage, learned_patterns[th_arg[t].i + 1])
                              >= th_arg[t].min_usage
                        THEN Append(@, learned_patterns[th_arg[t].i + 1]) ELSE @]
            /\ UNCHANGED th_pc
       ELSE /\ th_pc' = [th_pc EXCEPT ![t] = "assign"]
            /\ UNCHANGED th_arg
    /\ UNCHANGED <<th_n, envVars, storeVars, outsideTh>>

\* Lines 268 and 273-274: the new list is assigned; the call returns when
\* nothing was removed.
ThAssign(t) ==
    /\ th_pc[t] = "assign"
    /\ learned_patterns' = th_arg[t].kept
    /\ th_pc' = [th_pc EXCEPT ![t] = IF th_arg[t].before - Len(th_arg[t].kept) > 0
                                      THEN "prune_save" ELSE "idle"]
    /\ UNCHANGED <<th_arg, th_n, envVars, learned_file, pattern_usage, outsideTh>>

\* Line 276: the save, which may fail.
ThPruneSave(t) ==
    /\ th_pc[t] = "prune_save"
    /\ \E io_ok \in BOOLEAN :
          /\ learned_file' = save_learned_patterns(learned_file, learned_patterns,
                                                   pattern_usage, clock_now, io_ok)
          /\ th_arg' = [th_arg EXCEPT ![t].write_error = @ \/ ~io_ok]
    /\ th_pc' = [th_pc EXCEPT ![t] = "idle"]
    /\ UNCHANGED <<th_n, envVars, learned_patterns, pattern_usage, outsideTh>>

ThNext ==
    \/ ThStart
    \/ \E t \in Threads : ThCall(t)
    \/ \E t \in Threads : ThCheck(t)
    \/ \E t \in Threads : ThAppend(t)
    \/ \E t \in Threads : ThCount(t)
    \/ \E t \in Threads : ThSave(t)
    \/ \E t \in Threads : ThPrune(t)
    \/ \E t \in Threads : ThFilter(t)
    \/ \E t \in Threads : ThAssign(t)
    \/ \E t \in Threads : ThPruneSave(t)

SpecThreads == ThInit /\ [][ThNext]_vars

\* C11: whatever the interleaving of the calls of learn_from_candidate made
\* by different threads, the learned list never holds a pattern twice.
C11_NoDuplicatePattern ==
    \A i \in 1 .. Len(learned_patterns) : \A j \in 1 .. Len(learned_patterns) :
        i # j => learned_patterns[i] # learned_patterns[j]


\* C30: whatever the interleaving of a call of learn_from_candidate with a
\* call of prune_unused_patterns(min_usage), once the calls are over a
\* pattern for which learn_from_candidate returned True and whose count is
\* at least min_usage is in the learned list, and in the file when no write
\* failed.
C30_NoAppendedPatternLost ==
    (\A t \in Threads : th_pc[t] = "idle")
        => \A t \in Threads : \A u \in Threads :
              (/\ th_arg[t].appended # ""
               /\ th_arg[u].pruned
               /\ UsageGet(pattern_usage, th_arg[t].appended) >= th_arg[u].min_usage)
                  => /\ InList(th_arg[t].appended, learned_patterns)
                     /\ (\A v \in Threads : ~th_arg[v].write_error)
                           => InList(th_arg[t].appended,
                                     load_learned_patterns(learned_file).learned)
-----------------------------------------------------------------------------
(* process_image: the preprocessing, the OCR passes and the vote            *)
(* (SpecImage).  The image is what the primitives and the OCR engine make   *)
(* of it: they may raise, and each pass reads some tokens                   *)

\* lines 83-90
OCR_CONFIGS ==
    << "--psm 6 -l spa+eng", "--psm 11 -l spa+eng", "--psm 6 -l eng",
       "--psm 3 -l spa+eng", "--psm 4 -l spa+eng", "--psm 7 -l eng" >>

\* What image_to_data may give for one configuration: it raises, or a list
\* of tokens, each with its text and its confidence as the engine writes
\* it, a decimal number here held in tenths.
OcrOutputs ==
    { [raises |-> TRUE, tokens |-> <<>>],
      [raises |-> FALSE,
       tokens |-> << [text |-> "EXP", conf |-> 900], [text |-> "05/12/2026", conf |-> 855] >>],
      [raises |-> FALSE,
       tokens |-> << [text |-> "BEST", conf |-> 310], [text |-> "BEFORE", conf |-> 750],
                     [text |-> "LOT", conf |-> 300], [text |-> "9", conf |-> -10],
                     [text |-> "L", conf |-> 290], [text |-> "05/12/2026", conf |-> 880] >>],
      [raises |-> FALSE,
       tokens |-> << [text |-> "EXP", conf |-> 600], [text |-> "15JUN26", conf |-> 700] >>],
      [raises |-> FALSE,
       tokens |-> << [text |-> "2027", conf |-> 305], [text |-> "", conf |-> 950] >>] }

\* int(float(conf)), line 379: the decimals are cut off, towards zero.
IntOfFloat(tenths) == IF tenths >= 0 THEN tenths \div 10 ELSE -((-tenths) \div 10)

\* the filter of line 380 written with >=
PassText_AtLeast30(tokens) ==
    LET RECURSIVE Join(_, _, _)
        Join(k, text, first) ==
            IF k > Len(tokens) THEN text
            ELSE IF IntOfFloat(tokens[k].conf) >= 30
            THEN Join(k + 1, IF first THEN tokens[k].text ELSE text \o " " \o tokens[k].text,
                      FALSE)
            ELSE Join(k + 1, text, first)
    IN  Join(1, "", TRUE)

\* lines 377-383: the tokens of confidence above 30, joined by spaces.
PassText(tokens) ==
    LET RECURSIVE Join(_, _, _)
        Join(k, text, first) ==
            IF k > Len(tokens) THEN text
            ELSE IF IntOfFloat(tokens[k].conf) > 30
            THEN Join(k + 1, IF first THEN tokens[k].text ELSE text \o " " \o tokens[k].text,
                      FALSE)
            ELSE Join(k + 1, text, first)
    IN  Join(1, "", TRUE)

\* The texts the passes hand to normalize_ocr_text.
ImgTexts == { t \in { PassText(d.tokens) : d \in OcrOutputs } : ~IsBlank(t) }

\* The value of process_image when it returns None.
ReturnsNone == "None"

ImgInit ==
    /\ img_pc = "import" /\ img_i = 0 /\ all_dates = <<>> /\ img_ret = ""
    /\ img_log = <<>>
    /\ VdIdle /\ EnvIdle /\ StoreIdle /\ PsIdle /\ StIdle /\ PdIdle /\ ThIdle

ImgImport ==
    /\ img_pc = "import"
    /\ Import(ImgTexts, {}, RunClocks, {FALSE})
    /\ img_pc' = "start"
    /\ UNCHANGED <<img_i, all_dates, img_ret, img_log, outsideImg>>

\* lines 344-364: a primitive raises and line 414 makes the call return
\* None, or the loop begins with no date.
ImgPreprocess ==
    /\ img_pc = "start"
    /\ \/ /\ img_pc' = "done"
          /\ img_ret' = ReturnsNone
          /\ UNCHANGED <<img_i, all_dates>>
       \/ /\ img_pc' = "ocr"
          /\ img_i' = 1
          /\ all_dates' = <<>>
          /\ UNCHANGED img_ret
    /\ UNCHANGED <<img_log, envVars, storeVars, outsideImg>>

\* A pass that ends in "continue" (lines 386 and 398): the dates collected
\* so far stay and so does the store.
ImgSkip_DropsDates(outcome, tokens) ==
    /\ img_log' = Append(img_log, [config |-> img_i, outcome |-> outcome,
                                   tokens |-> tokens, text |-> PassText(tokens),
                                   date |-> NoDate, num |-> 0, den |-> 1,
                                   before |-> all_dates])
    /\ all_dates' = <<>>
    /\ UNCHANGED storeVars

ImgSkip(outcome, tokens) ==
    /\ img_log' = Append(img_log, [config |-> img_i, outcome |-> outcome,
                                   tokens |-> tokens, text |-> PassText(tokens),
                                   date |-> NoDate, num |-> 0, den |-> 1,
                                   before |-> all_dates])
    /\ UNCHANGED <<all_dates, storeVars>>

\* One turn of the loop of line 366, on configuration img_i.  The record
\* added to img_log tells what the pass did: "raise", "blank" or "text",
\* the tokens the engine gave and the text made of them, and for a text the date find_date gave, the score num / (100 * den) of
\* the candidate it took and the dates collected before.  The save of a
\* pattern learned in a pass succeeds here.  outputs: what the OCR engine may
\* give.
ImgPassOn(outputs) ==
    /\ img_pc = "ocr"
    /\ \E data \in outputs :
         LET Pass(text) ==
                 IF IsBlank(text) THEN ImgSkip("blank", data.tokens)
                 ELSE \E order \in LearningOrders(memo.normalize[text]) :
                        \E r \in { find_date(memo.normalize[text], TRUE, order, TRUE,
                                             learned_patterns, pattern_usage,
                                             learned_file, clock_now, dp_lenient) } :
                           /\ all_dates' = IF r.date # NoDate
                                           THEN Append(all_dates, r.date) ELSE all_dates
                           /\ learned_patterns' = r.learned
                           /\ pattern_usage' = r.usage
                           /\ learned_file' = r.file
                           /\ img_log' = Append(img_log,
                                                [config |-> img_i, outcome |-> "text",
                                                 tokens |-> data.tokens,
                                                 text |-> text, date |-> r.date,
                                                 num |-> r.num, den |-> r.den,
                                                 before |-> all_dates])
         IN  IF data.raises THEN ImgSkip("raise", <<>>) ELSE Pass(PassText(data.tokens))
    /\ img_i' = img_i + 1
    /\ img_pc' = IF img_i = Len(OCR_CONFIGS) THEN "vote" ELSE "ocr"
    /\ UNCHANGED <<img_ret, envVars, outsideImg>>

ImgPass == ImgPassOn(OcrOutputs)

\* most_common(1) taking the first date of the list
MostCommon_FirstDate(dates) == dates[1]

\* Counter(all_dates).most_common(1)[0][0], lines 406-407: a Counter lists
\* its keys in the order of their first insertion and most_common(1) takes
\* the first key of the greatest count.
MostCommon(dates) ==
    LET Count(d) == Cardinality({ k \in 1 .. Len(dates) : dates[k] = d })
        First(d) == CHOOSE k \in 1 .. Len(dates) :
                        dates[k] = d /\ \A j \in 1 .. k - 1 : dates[j] # d
    IN  CHOOSE d \in { dates[k] : k \in 1 .. Len(dates) } :
            \A e \in { dates[k] : k \in 1 .. Len(dates) } :
                \/ Count(e) < Count(d)
                \/ Count(e) = Count(d) /\ First(d) <= First(e)

\* lines 400-412
ImgVote ==
    /\ img_pc = "vote"
    /\ img_ret' = IF Len(all_dates) = 0 THEN ReturnsNone
                  ELSE StrftimeYmd(MostCommon(all_dates))
    /\ img_pc' = "done"
    /\ UNCHANGED <<img_i, all_dates, img_log, envVars, storeVars, outsideImg>>

ImgNext == ImgImport \/ ImgPreprocess \/ ImgPass \/ ImgVote

SpecImage == ImgInit /\ [][ImgNext]_vars

\* A call of process_image goes on to its return: no step of it waits for
\* anything but the primitives and the OCR engine, taken here to answer.
\* For the runs in which the end of the call is looked at, the engine
\* raises, reads nothing above the confidence of 30, or reads the tokens of
\* "EXP 05/12/2026", which give a date or none.
OcrOutputsLive ==
    { d \in OcrOutputs : d.raises \/ PassText(d.tokens) \in {"", "EXP 05/12/2026"} }

ImgPassLive == ImgPassOn(OcrOutputsLive)

ImgNextLive == ImgImport \/ ImgPreprocess \/ ImgPassLive \/ ImgVote

SpecImageLive ==
    ImgInit /\ [][ImgNextLive]_vars /\ WF_vars(ImgPreprocess \/ ImgPassLive \/ ImgVote)

-----------------------------------------------------------------------------
(* Claims about find_date and the learning engine (SpecPass)                *)

\* The nested calls of find_date the last call made, outermost first.
PsLevels == ps_call.levels

\* C7: the pass on the OCR text "BEST BEFORE 05/12/2026", with the built-in
\* patterns and an empty learned store, yields the date 2026-12-05.
C7_BestBeforePass ==
    (ps_pc = "ret" /\ ps_text = "BEST BEFORE 05/12/2026" /\ ps_call.learned0 = <<>>)
        => ps_ret = MidnightOf(2026, 12, 5)

PsLastLearn == PsLevels[1].calls[Len(PsLevels[1].calls)]

\* C16: when the write of the store file fails while a pattern is learned,
\* learn_from_candidate still returns True, the new pattern is the last of
\* the learned list with usage 1, the second call of find_date matches with
\* the list that holds it, and the list keeps it when find_date returns.
C16_WriteFailureKeepsPattern ==
    (ps_pc = "ret" /\ ~ps_call.io_ok /\ PsLevels[1].saves)
        => /\ PsLastLearn.returned
           /\ Len(PsLastLearn.learned1) = Len(PsLastLearn.learned0) + 1
           /\ SubSeq(PsLastLearn.learned1, 1, Len(PsLastLearn.learned0))
                 = PsLastLearn.learned0
           /\ UsageGet(PsLastLearn.usage1,
                       PsLastLearn.learned1[Len(PsLastLearn.learned1)]) = 1
           /\ Len(PsLevels) = 2
           /\ learned_patterns = PsLastLearn.learned1
           /\ ps_ret = FoundDate(FindCandidates(ps_call.text, PsLastLearn.learned1,
                                                PsLastLearn.usage1, clock_now,
                                                dp_lenient).candidates).date

\* C16 witness: a call learned a pattern while the write failed, and a later
\* call of the same process found its date through the learned list, the
\* file never having been written.
C16_Witness ==
    /\ ps_pc = "ret" /\ ps_n = 2
    /\ ~learned_file.exists
    /\ Len(ps_call.learned0) > 0
    /\ PsLevels[1].validated > 0
    /\ ps_text = "BEST BEFORE 05/12/2026"
    /\ ps_ret = MidnightOf(2026, 12, 5)

\* C17: a candidate whose pattern is rejected, or that gives no structure,
\* makes learn_from_candidate return False with the learned list and the
\* usage counters as they were; the loop of find_date goes on to the next
\* detected candidate (it ends only after the last one or at a candidate
\* that was learned), and a call in which nothing was learned writes no file.
C17_RejectedLeavesStore ==
    ps_pc = "ret" =>
        /\ \A l \in 1 .. Len(PsLevels) : \A k \in 1 .. Len(PsLevels[l].calls) :
              PsLevels[l].calls[k].outcome \in {"no_structure", "rejected"}
                 => /\ ~PsLevels[l].calls[k].returned
                    /\ PsLevels[l].calls[k].learned1 = PsLevels[l].calls[k].learned0
                    /\ PsLevels[l].calls[k].usage1 = PsLevels[l].calls[k].usage0
                    /\ \/ k < Len(PsLevels[l].calls)
                       \/ k = Cardinality(memo.detect[ps_call.text])
        /\ (\A l \in 1 .. Len(PsLevels) : \A k \in 1 .. Len(PsLevels[l].calls) :
                ~PsLevels[l].calls[k].returned)
              => learned_file = ps_call.file0

\* C17 witness: a candidate without digits gave no structure and the loop
\* went on to a later candidate.
C17_Witness ==
    /\ ps_pc = "ret"
    /\ \E k \in 1 .. Len(PsLevels[1].calls) :
          /\ PsLevels[1].calls[k].outcome = "no_structure"
          /\ k < Len(PsLevels[1].calls)

\* C18: the learning engine is reached only in a call of find_date that
\* found no validated candidate and has learning enabled; a call that found
\* a validated candidate leaves the learned list as it was.
C18_LearningOnlyWithoutCandidates ==
    ps_pc = "ret" =>
        /\ \A l \in 1 .. Len(PsLevels) :
              PsLevels[l].learning
                 => PsLevels[l].validated = 0 /\ PsLevels[l].enable_learning
        /\ PsLevels[1].validated > 0 => learned_patterns = ps_call.learned0

\* C18 witness: a call with learning enabled on a store with a learned
\* pattern found a validated candidate.
C18_Witness ==
    /\ ps_pc = "ret"
    /\ ps_call.enable_learning
    /\ Len(ps_call.learned0) > 0
    /\ PsLevels[1].validated > 0

\* The shape of a call of find_date: one level, or, when a pattern was
\* learned, a second level with learning disabled that does not learn.
C19_Shape ==
    ps_pc = "ret" =>
        /\ Len(PsLevels) \in {1, 2}
        /\ PsLevels[1].saves <=> Len(PsLevels) = 2
        /\ Len(PsLevels) = 2
              => /\ ~PsLevels[2].enable_learning
                 /\ ~PsLevels[2].learning
                 /\ ~PsLevels[2].saves

\* C19: after a pattern is accepted the engine is called again exactly once,
\* with learning disabled, and that call never learns: find_date is never
\* nested more than 2 deep, and every call returns.
C19_RetryOnce == [](C19_Shape) /\ (ps_pc = "ready" ~> ps_pc = "ret")

\* C19 witness: a call learned a pattern and ran the engine a second time.
C19_Witness ==
    /\ ps_pc = "ret"
    /\ Len(PsLevels) = 2
    /\ PsLevels[1].saves
-----------------------------------------------------------------------------
(* Claims about the store and its file (SpecStore)                          *)

\* The four conditions of a learned pattern: it compiles, has a capture
\* group, has a digit token and is at least 10 characters long.
StAcceptable(pattern) ==
    /\ memo.compiled[pattern].ok
    /\ memo.compiled[pattern].ng >= 1
    /\ Contains(pattern, "\\d")
    /\ Len(pattern) >= 10

StLearnEffect(c) ==
    /\ c.returned <=> Len(c.learned1) = Len(c.learned0) + 1
    /\ c.returned
          => /\ SubSeq(c.learned1, 1, Len(c.learned0)) = c.learned0
             /\ ~InList(c.learned1[Len(c.learned1)], c.learned0)
             /\ UsageGet(c.usage1, c.learned1[Len(c.learned1)]) = 1
    /\ ~c.returned => c.learned1 = c.learned0

\* The file holds the store as the call c left it.
StFileHolds(c) ==
    learned_file = [exists |-> TRUE,
                    lines |-> JsonDump(SaveData(c.learned1, c.usage1, clock_now))]

\* C20 as stated: learn_from_candidate returns True exactly when it appended
\* a new pattern, then last of the list with count 1, and the file has been
\* rewritten with that state; when it returns False the list is unchanged.
C20_Original ==
    (st_pc = "idle" /\ hist.op = "find")
        => \A k \in 1 .. Len(hist.calls) :
              /\ StLearnEffect(hist.calls[k])
              /\ hist.calls[k].returned => StFileHolds(hist.calls[k])

\* C20 as amended: the same, the file holding that state when the write did
\* not fail.
C20_LearnReturnsTrueIffAppended ==
    (st_pc = "idle" /\ hist.op = "find")
        => \A k \in 1 .. Len(hist.calls) :
              /\ StLearnEffect(hist.calls[k])
              /\ (hist.calls[k].returned /\ ~hist.write_error)
                    => StFileHolds(hist.calls[k])

\* C20 witness: a pattern was learned again after a prune had removed it and
\* left its count of 2 or more; the count is 1 and the file was written.
C20_Witness ==
    /\ st_pc = "idle" /\ hist.op = "find" /\ ~hist.write_error
    /\ \E k \in 1 .. Len(hist.calls) :
          /\ hist.calls[k].returned
          /\ UsageGet(hist.calls[k].usage0,
                      hist.calls[k].learned1[Len(hist.calls[k].learned1)]) >= 2
          /\ UsageGet(hist.calls[k].usage1,
                      hist.calls[k].learned1[Len(hist.calls[k].learned1)]) = 1
          /\ StFileHolds(hist.calls[k])

\* The store a fresh learner would load from a complete save of the store
\* in memory.
StSavedAndLoaded ==
    load_learned_patterns([exists |-> TRUE,
                           lines |-> JsonDump(SaveData(learned_patterns, pattern_usage,
                                                       clock_now))])

\* C8: saving the store and loading it into a fresh learner gives the same
\* list, in the same order, and the same counts, for every store the runs
\* reach; and a run that starts on a file a save completed has the store
\* that was saved.
C8_SaveLoadRoundTrip ==
    /\ st_pc = "idle"
          => StSavedAndLoaded = [learned |-> learned_patterns, usage |-> pattern_usage]
    /\ (st_pc = "idle" /\ hist.op = "start" /\ hist.saved.ok)
          => /\ learned_patterns = hist.saved.learned
             /\ pattern_usage = hist.saved.usage

\* C8 witness: a run started on the file of a complete save that held a
\* learned pattern and its count.
C8_Witness ==
    /\ st_pc = "idle" /\ hist.op = "start" /\ hist.saved.ok
    /\ Len(learned_patterns) > 0
    /\ Len(pattern_usage) > 0
    /\ learned_patterns = hist.saved.learned

\* C9: once an operation that changed the store in memory is over without
\* a write error, the file holds the list and the counts that are in memory.
C9_FileFollowsMemory ==
    (st_pc = "idle" /\ hist.op \in {"find", "prune"} /\ hist.mutated /\ ~hist.write_error)
        => load_learned_patterns(learned_file)
              = [learned |-> learned_patterns, usage |-> pattern_usage]

\* C10: after a crash inside save_learned_patterns the file is the complete
\* record it held before the save or the complete new record.
C10_CrashLeavesCompleteRecord ==
    (st_pc = "down" /\ hist.crashed = "saving")
        => \/ learned_file = hist.pre
           \/ learned_file = [exists |-> TRUE, lines |-> hist.post]


\* C24: prune_unused_patterns(min_usage) leaves the learned list equal to
\* the list it was called on restricted to the patterns whose count is at
\* least min_usage, in the same order, and the file rewritten with that
\* store (the write not failing).
C24_PruneKeepsAtOrAboveThreshold ==
    (st_pc = "idle" /\ hist.op = "prune")
        => LET c == hist.calls[1]
           IN  /\ learned_patterns
                     = SelectSeq(c.learned0,
                                 LAMBDA q : UsageGet(c.usage0, q) >= c.min_usage)
               /\ ~hist.write_error
                     => learned_file
                           = [exists |-> TRUE,
                              lines |-> JsonDump(SaveData(learned_patterns, c.usage0,
                                                          clock_now))]

\* The patterns that have an entry in the usage map are the patterns of the
\* learned list, and each pattern of the list has a count of 1 or more.
StUsageMatchesList ==
    /\ { pattern_usage[k][1] : k \in 1 .. Len(pattern_usage) }
          = { learned_patterns[k] : k \in 1 .. Len(learned_patterns) }
    /\ \A k \in 1 .. Len(learned_patterns) :
          UsageGet(pattern_usage, learned_patterns[k]) >= 1

\* C29: starting from an empty store (no file), after any sequence of learn,
\* match and prune operations the patterns with an entry in the usage map
\* are the patterns of the learned list, each with a count of 1 or more.
C29_UsageKeysAreLearned ==
    (hist.first_file = NoFile /\ st_pc = "idle") => StUsageMatchesList
-----------------------------------------------------------------------------
(* Claims about process_image (SpecImage)                                   *)

\* The dates the pass on a text gives when it is the first to run, from the
\* store as the import left it (empty): one date per order in which the
\* learning loop may see the candidates.
ImgAloneDates(text) ==
    { find_date(memo.normalize[text], TRUE, order, TRUE, <<>>, <<>>, NoFile,
                clock_now, dp_lenient).date :
        order \in LearningOrders(memo.normalize[text]) }

\* C12: the date a pass produces for its text does not depend on the passes
\* of the same image that ran before it: it is a date the same text gives
\* when its pass runs first.
C12_PassesIndependent ==
    \A k \in 1 .. Len(img_log) :
        img_log[k].outcome = "text" => img_log[k].date \in ImgAloneDates(img_log[k].text)

\* Some pass of the image gave a validated date.
ImgSomePassDated == \E k \in 1 .. Len(img_log) : img_log[k].date # NoDate

\* A string of the form YYYY-MM-DD
ImgIsYmd(s) ==
    /\ Len(s) = 10
    /\ Char(s, 5) = "-" /\ Char(s, 8) = "-"
    /\ IsDigitStr(SubSeq(s, 1, 4))
    /\ IsDigitStr(SubSeq(s, 6, 7))
    /\ IsDigitStr(SubSeq(s, 9, 10))

\* What process_image has returned when it is over: a 'YYYY-MM-DD' string
\* exactly when some pass gave a validated date, and None otherwise.
C1_Outcome ==
    img_pc = "done"
        => /\ img_ret # ""
           /\ img_ret # ReturnsNone <=> ImgSomePassDated
           /\ img_ret # ReturnsNone
                 => /\ ImgIsYmd(img_ret)
                    /\ \E k \in 1 .. Len(img_log) :
                          /\ img_log[k].date # NoDate
                          /\ img_ret = StrftimeYmd(img_log[k].date)

\* C1: whatever the primitives and the OCR engine do, raising included, a
\* call of process_image comes to its end, and it ends with a 'YYYY-MM-DD'
\* string exactly when some pass gave a validated date and with None
\* otherwise.
C1_TerminatesInOneOutcome == [](C1_Outcome) /\ (img_pc = "start" ~> img_pc = "done")

\* C1 witness: the call is over with a date string although a pass raised.
C1_Witness ==
    /\ img_pc = "done"
    /\ ImgIsYmd(img_ret)
    /\ \E k \in 1 .. Len(img_log) : img_log[k].outcome = "raise"

\* C2: a configuration whose OCR call raises or whose text is empty leaves
\* the dates collected before it as they were, and the configurations after
\* it are run all the same, in the order of the list.
C2_LoopContinues ==
    /\ \A k \in 1 .. Len(img_log) :
          /\ img_log[k].config = k
          /\ img_log[k].outcome \in {"raise", "blank"}
                => IF k < Len(img_log) THEN img_log[k + 1].before = img_log[k].before
                   ELSE all_dates = img_log[k].before
          /\ \A j \in 1 .. Len(img_log[k].before) : all_dates[j] = img_log[k].before[j]
    /\ (img_pc \in {"vote", "done"} /\ img_i > 0) => Len(img_log) = Len(OCR_CONFIGS)

\* C2 witness: the first pass raised, the second read nothing, and the call
\* ended with the date of a later pass, all the configurations having run.
C2_Witness ==
    /\ img_pc = "done"
    /\ Len(img_log) = Len(OCR_CONFIGS)
    /\ img_log[1].outcome = "raise"
    /\ img_log[2].outcome = "blank"
    /\ img_log[3].date # NoDate
    /\ img_ret # ReturnsNone

\* The number of passes whose date is the calendar date of d.
ImgVotes(d) ==
    Cardinality({ k \in 1 .. Len(all_dates) : DateOf(all_dates[k]) = DateOf(d) })

\* C3: the vote returns a calendar date that no other date has more votes
\* than, two passes voting for the same entry when their dates are the
\* same day.
C3_MostVotesWin ==
    (img_pc = "done" /\ Len(all_dates) > 0)
        => \E k \in 1 .. Len(all_dates) :
              /\ img_ret = StrftimeYmd(all_dates[k])
              /\ \A j \in 1 .. Len(all_dates) :
                    ImgVotes(all_dates[j]) <= ImgVotes(all_dates[k])

\* C3 witness: the date of the first pass had one vote, another date two,
\* and the other date was returned.
C3_Witness ==
    /\ img_pc = "done"
    /\ Len(all_dates) = 3
    /\ ImgVotes(all_dates[1]) = 1
    /\ ImgVotes(all_dates[2]) = 2
    /\ img_ret = StrftimeYmd(all_dates[2])

\* score(a) < score(b), for records of img_log
ImgScoreLess(a, b) == a.num * b.den < b.num * a.den

\* C4: when dates tie for the greatest number of votes, the date returned
\* is the tied date of the pass with the greatest score: no pass of another
\* tied date has a score above every pass of the date returned.
C4_TieGoesToBestScore ==
    (img_pc = "done" /\ Len(all_dates) > 0)
        => \A k \in 1 .. Len(img_log) :
              (/\ img_log[k].date # NoDate
               /\ \A j \in 1 .. Len(all_dates) :
                     ImgVotes(all_dates[j]) <= ImgVotes(img_log[k].date))
                 => \E w \in 1 .. Len(img_log) :
                       /\ img_log[w].date # NoDate
                       /\ img_ret = StrftimeYmd(img_log[w].date)
                       /\ ~ImgScoreLess(img_log[w], img_log[k])


\* The texts of a list of tokens joined by single spaces.
RECURSIVE ImgJoin(_)
ImgJoin(tokens) ==
    IF Len(tokens) = 0 THEN ""
    ELSE IF Len(tokens) = 1 THEN tokens[1].text
    ELSE tokens[1].text \o " " \o ImgJoin(Tail(tokens))

-----------------------------------------------------------------------------
(* Claims about the order of the pattern list and the choice of the date    *)
(* (SpecPass)                                                               *)

\* The candidates of the search the last call of find_date returned from:
\* that search ran on the store as the call left it, its counts apart.
PsFinalCandidates ==
    FindCandidates(ps_call.text, learned_patterns, pattern_usage, clock_now,
                   dp_lenient).candidates

\* The places in the learned list of the patterns that gave a validated
\* candidate to that search.
PsContributed ==
    LET Places(candidates) ==
            { candidates[k].pattern_index + 1 : k \in 1 .. Len(candidates) }
                \cap (1 .. Len(learned_patterns))
    IN  Once(Places, PsFinalCandidates)

\* C21: the learned patterns come before the built-in ones, and among the
\* learned patterns one that has just given a validated date ranks before
\* those that did not give one in that call.
C21_RecentlyUsefulFirst ==
    (ps_pc = "ret" /\ ~IsBlank(ps_call.text))
        => \A i \in PsContributed :
              \A j \in (1 .. Len(learned_patterns)) \ PsContributed : i < j

\* The total score of a validated candidate of a text of length len among n
\* patterns, times 100 * n * len:
\*   0.5 * plausibility + 0.3 * (1 - 0.5 * rank / n)
\*                      + 0.2 * (1 - 0.3 * offset / len)
PsTotalScore(c, n, len) ==
    5 * validate_date_for_products(c.date, clock_now)[2] * n * len
        + 30 * n * len - 15 * c.pattern_index * len
        + 20 * n * len - 6 * c.position * n

\* C22: find_date returns None exactly when the text gave no validated
\* candidate; otherwise it returns the date of a candidate that passed the
\* validator (years-from-now within [-3, +10]) and whose total score is the
\* greatest among the validated candidates of the text.
C22_BestValidatedCandidate ==
    (ps_pc = "ret" /\ ~IsBlank(ps_call.text))
        => LET n == Len(learned_patterns) + Len(BASE_DATE_PATTERNS)
               len == Len(ps_call.text)
               YearsOf(c) == 4 * ((c.date - clock_now) \div TicksPerDay)
               Holds(c) ==
                   /\ (ps_ret = NoDate) = (Len(c) = 0)
                   /\ \A k \in 1 .. Len(c) :
                         -3 * 1461 <= YearsOf(c[k]) /\ YearsOf(c[k]) <= 10 * 1461
                   /\ Len(c) > 0 =>
                         \E k \in 1 .. Len(c) :
                            /\ c[k].date = ps_ret
                            /\ \A j \in 1 .. Len(c) :
                                  PsTotalScore(c[j], n, len) <= PsTotalScore(c[k], n, len)
           IN  Once(Holds, PsFinalCandidates)

\* C22 witness: find_date on "01/02/2024 05/12/2026" found the two
\* dates, the first of them with the lower score, and returned the second.
C22_Witness ==
    /\ ps_pc = "ret"
    /\ ps_call.text = "01/02/2024 05/12/2026"
    /\ ps_ret = MidnightOf(2026, 12, 5)
    /\ LET First(c) ==
               /\ Len(c) > 1
               /\ c[1].date = MidnightOf(2024, 2, 1)
               /\ \E k \in 2 .. Len(c) :
                     /\ c[k].date = ps_ret
                     /\ PsTotalScore(c[1], Len(learned_patterns) + Len(BASE_DATE_PATTERNS),
                                     Len(ps_call.text))
                          < PsTotalScore(c[k], Len(learned_patterns) + Len(BASE_DATE_PATTERNS),
                                         Len(ps_call.text))
       IN  Once(First, PsFinalCandidates)

\* C23: the usage counter of a learned pattern grows by one for each
\* validated candidate the pattern gives during matching and by nothing
\* else: over a call of find_date the counter of a pattern learned before
\* the call grows by the number of validated candidates the pattern gave.
C23_UsageCountsValidatedMatches ==
    (ps_pc = "ret" /\ ~IsBlank(ps_call.text))
        => LET Given(c, i) ==
                   Cardinality({ k \in 1 .. Len(c) : c[k].pattern_index + 1 = i })
               Holds(c) ==
                   \A i \in 1 .. Len(ps_call.learned0) :
                      UsageGet(pattern_usage, ps_call.learned0[i])
                         = UsageGet(ps_call.usage0, ps_call.learned0[i]) + Given(c, i)
           IN  Once(Holds, PsFinalCandidates)

\* C26: every pattern learn_from_candidate accepts matches, case ignored,
\* the candidate string it was made from: here for the patterns the last
\* call of find_date appended.
C26_PatternMatchesItsCandidate ==
    ps_pc = "ret"
        => \A l \in 1 .. Len(PsLevels) : \A k \in 1 .. Len(PsLevels[l].calls) :
              LET c == PsLevels[l].calls[k]
              IN  c.outcome = "new"
                     => Len(MatchList(memo.compiled[c.learned1[Len(c.learned1)]],
                                      c.candidate)) > 0

\* The candidate string teaches the call a date: from the store the last
\* call started on, learn_from_candidate appends a pattern for it (whatever
\* the order of its separators) and the search made with that pattern finds
\* a validated candidate.
PsTeachesDate(candidate) ==
    /\ memo.structure[candidate].ok
    /\ \A o \in DOMAIN memo.generated[candidate] :
          LET Taught(r) ==
                  /\ r.learned_new
                  /\ Len(FindCandidates(ps_call.text, r.learned, r.usage, clock_now,
                                        dp_lenient).candidates) > 0
          IN  Once(Taught, learn_from_candidate(candidate, o, ps_call.learned0,
                                                ps_call.usage0))

\* C27: when matching gives no validated candidate and learning is enabled,
\* find_date returns a date whenever one of the detected candidate strings
\* teaches a pattern whose search gives a validated date.
C27_LearnsFromAnyCandidate ==
    (/\ ps_pc = "ret" /\ ~IsBlank(ps_call.text)
     /\ ps_call.enable_learning /\ PsLevels[1].validated = 0
     /\ \E c \in memo.detect[ps_call.text] : PsTeachesDate(c[1]))
        => ps_ret # NoDate

\* C28: find_date is deterministic in its inputs: any other run of the last
\* call, on the same text from the same store and at the same time, over
\* whatever order of the de-duplicated candidate set, returns the date the
\* call returned and leaves the store the call left.
C28_SameInputsSameResult ==
    (ps_pc = "ret" /\ ~IsBlank(ps_call.text))
        => \A order \in LearningOrders(ps_call.text) :
              LET Same(r) ==
                      /\ r.date = ps_ret
                      /\ r.learned = learned_patterns
                      /\ r.usage = pattern_usage
              IN  Once(Same, find_date(ps_call.text, ps_call.enable_learning, order,
                                       ps_call.io_ok, ps_call.learned0, ps_call.usage0,
                                       ps_call.file0, clock_now, dp_lenient))
=============================================================================
